---- MODULE Spec2Model ----
(***************************************************************************)
(* Server side of the delta (incremental) xDS protocol for one connection: *)
(* request classification (ACK / NACK / stale nonce / first request), the  *)
(* flow-controlled push scheduler and the send path, as implemented in     *)
(* src/unnamed/part_002 (package xds: StreamDeltas, pushConnectionDelta,     *)
(* processDeltaRequest, shouldRespondDelta, pushDeltaXds, sendDelta).       *)
(*                                                                         *)
(* Strings of the code are modelled as follows: a nonce is a natural       *)
(* number (0 is the empty string, k > 0 the k-th nonce minted on the       *)
(* connection: nonce() appends a fresh uuid, so no two minted nonces are   *)
(* equal); a version is the number of the configuration snapshot (0 is     *)
(* the empty string); a []string is a sequence of names, nil being <<>>    *)
(* (a repeated field decoded from the wire is nil exactly when empty).     *)
(***************************************************************************)
EXTENDS Integers, Sequences, FiniteSets, TLC

(***************************************************************************)
(* Bounds of the model.                                                    *)
(***************************************************************************)
\* Nonces minted on the connection (response frames built).
MaxNonce == 2
\* Configuration snapshots published after the first one.
MaxVersion == 2
\* Clock ticks after the connection was set up.
MaxTicks == 2
\* Frames the client sends on the stream.
MaxFrames == 2
\* Push events offered to the connection.
MaxEvents == 2

(***************************************************************************)
(* Program constants.                                                      *)
(***************************************************************************)
\* The empty string as a nonce or a version.
EmptyString == 0
\* features.FlowControlTimeout, in clock ticks.
FlowControlTimeout == 1
\* The zero time.Time of a WatchedResource that was never sent.
ZeroTime == 0
\* features.EnableUnsafeAssertions: off in a production deployment.
EnableUnsafeAssertions == FALSE
\* model.ProxyRequest, the reason a request-triggered push carries.
ProxyRequest == "proxyrequest"
\* The capacity of con.deltaReqChan.
DeltaReqChanCap == 1
\* errorChan: make(chan error, 1)
ErrorChanCap == 1
\* The error of a first frame without node identity.
MissingNode == "missing node information"

\* Resource types of the model: CDS is a wildcard type, EDS is not.
Types == {"CDS", "EDS"}
\* The push order of the types (pushDetails orders the watched resources).
PushOrder == <<"CDS", "EDS">>
\* Resource names, and their lexical order.
NameOrder == <<"a1", "a2">>
Names == {NameOrder[i] : i \in 1..Len(NameOrder)}

VARIABLES
    WatchedResources,   \* con.proxy.WatchedResources: map type -> WatchedResource
    blockedPushes,      \* con.blockedPushes: map type -> PushRequest
    globalPush,         \* version of s.globalPushContext()
    nonceCtr,           \* number of nonces minted so far
    now,                \* time.Now()
    EnableFlowControl,  \* features.EnableFlowControl, fixed at start-up
    status,             \* where StreamDeltas stands: "new", "waiting" (for
                        \* con.initialized), "active" (in the select loop),
                        \* or "closed" once it returned
    retErr,             \* what StreamDeltas returned: "" is nil
    last,               \* the last handler that ran, its input and its outcome
    receive,            \* where the receiveDelta goroutine stands
    deltaReqChan,       \* con.deltaReqChan: its buffer, and whether it is closed
    errorChan,          \* con.errorChan: its buffer, and whether it is closed
    initialized,        \* con.initialized is closed
    stop,               \* con.stop is closed
    pushChannel,        \* con.pushChannel: the push events being offered
    registered,         \* the server's table of connections holds con
    log                 \* what was received, processed, offered and delivered

\* The variables of the stream: the channels and the receiveDelta goroutine.
streamVars == <<receive, deltaReqChan, errorChan, initialized, stop,
                pushChannel, registered, log>>

vars == <<WatchedResources, blockedPushes, globalPush, nonceCtr, now,
          EnableFlowControl, status, retErr, last, receive, deltaReqChan,
          errorChan, initialized, stop, pushChannel, registered, log>>

(***************************************************************************)
(* Maps and lists.                                                         *)
(***************************************************************************)
EmptyMap == [x \in {} |-> x]

MapDelete(m, k) == [x \in DOMAIN m \ {k} |-> m[x]]

MapPut(m, k, v) == [x \in DOMAIN m \cup {k} |-> IF x = k THEN v ELSE m[x]]

Range(s) == {s[i] : i \in 1..Len(s)}

\* sets.Set.SortedList
SortedList(S) == SelectSeq(NameOrder, LAMBDA n : n \in S)

\* listEqualUnordered: equality of two name lists whatever their order.
listEqualUnordered(a, b) == Range(a) = Range(b)

isWildcardTypeURL(t) == t = "CDS"

(***************************************************************************)
(* Requests, push requests, generator outcomes.                            *)
(***************************************************************************)
SubscribeLists == {<<>>, <<"a1">>, <<"a2", "a1">>}
UnsubscribeLists == {<<>>, <<"a1">>}

\* discovery.DeltaDiscoveryRequest, after the first frame of the stream.
Requests ==
    [TypeUrl : Types,
     ResourceNamesSubscribe : SubscribeLists,
     ResourceNamesUnsubscribe : UnsubscribeLists,
     ResponseNonce : 0..MaxNonce,
     ErrorDetail : BOOLEAN]

\* model.PushRequest: Full, the push context (its version), the reasons.
PushRequest(full, push, reason) == [Full |-> full, Push |-> push, Reason |-> reason]

\* The push requests of push events: a full push after a configuration
\* change, an incremental one after an endpoint change.
EventRequests(push) ==
    {PushRequest(TRUE, push, {"config"}), PushRequest(FALSE, push, {"endpoint"})}

\* PushRequest.CopyMerge, old being the request already blocked.
CopyMerge(old, new) ==
    PushRequest(old.Full \/ new.Full, new.Push, old.Reason \cup new.Reason)

\* What a generator may return for one call: gen is "none" when no generator
\* is registered for the type, "delta" for a XdsDeltaResourceGenerator and
\* "sotw" for a XdsResourceGenerator; resNil / delNil say that res /
\* deletedRes is nil.
GenOut(gen, err, resNil, names, delNil, deleted, usedDelta) ==
    [gen |-> gen, err |-> err, resNil |-> resNil, names |-> names,
     delNil |-> delNil, deleted |-> deleted, usedDelta |-> usedDelta]

GenOutcomes ==
    { GenOut("sotw", TRUE, TRUE, <<>>, TRUE, <<>>, FALSE),
      GenOut("sotw", FALSE, TRUE, <<>>, TRUE, <<>>, FALSE),
      GenOut("sotw", FALSE, FALSE, <<"a1">>, TRUE, <<>>, FALSE),
      GenOut("sotw", FALSE, FALSE, <<"a2", "a1">>, TRUE, <<>>, FALSE) }

\* The environment of one push of one type: the generator's outcome and
\* whether the stream accepts the frame (a send fails only if one is tried).
Envs ==
    {e \in [g : GenOutcomes, sendOk : BOOLEAN] :
        e.sendOk \/ (e.g.gen # "none" /\ ~e.g.err /\ ~(e.g.resNil /\ e.g.delNil))}

(***************************************************************************)
(* The Watched-Resource table.                                             *)
(***************************************************************************)
\* &model.WatchedResource{TypeUrl: t, ResourceNames: names}
NewWatchedResource(t, names) ==
    [TypeUrl |-> t, ResourceNames |-> names, NonceSent |-> EmptyString,
     NonceAcked |-> EmptyString, NonceNacked |-> EmptyString,
     VersionSent |-> EmptyString, LastSent |-> ZeroTime]

\* Mutant: the unsubscribe list is not removed.
deltaWatchedResources_NoDelete(existing, request) ==
    SortedList(Range(existing) \cup Range(request.ResourceNamesSubscribe))

deltaWatchedResources(existing, request) ==
    SortedList((Range(existing) \cup Range(request.ResourceNamesSubscribe))
                  \ Range(request.ResourceNamesUnsubscribe))

\* Connection.Synced: (the last nonce sent was acknowledged, the type has
\* been waiting for longer than the flow-control timeout).
Synced(wrs, t, time) ==
    [synced |-> wrs[t].NonceAcked = wrs[t].NonceSent,
     timeout |-> time - wrs[t].LastSent > FlowControlTimeout]

(***************************************************************************)
(* shouldRespondDelta: the ACK / NACK rules.  The result holds the table   *)
(* after the call, the decision and the rule that made it.                 *)
(***************************************************************************)
\* Mutant: an empty nonce counts as expired too.
expiredNonce_EmptyToo(request, w) == request.ResponseNonce # w.NonceSent

\* Mutant: no nonce is ever expired.
expiredNonce_Never(request, w) == FALSE

\* The expired / stale nonce test on the previous info w of the type.
expiredNonce(request, w) ==
    /\ request.ResponseNonce # EmptyString
    /\ request.ResponseNonce # w.NonceSent

\* The record of a NACK in the watched resource w.
recordNack(w, request) == [w EXCEPT !.NonceNacked = request.ResponseNonce]

\* Mutant: the nacked nonce is not cleared.
recordAck_KeepNacked(w, request, deltaResources) ==
    [w EXCEPT !.NonceAcked = request.ResponseNonce,
              !.ResourceNames = deltaResources]

\* The record of an ACK in the watched resource w.
recordAck(w, request, deltaResources) ==
    [w EXCEPT !.NonceAcked = request.ResponseNonce,
              !.NonceNacked = EmptyString,
              !.ResourceNames = deltaResources]

\* Mutant: a NACK of a type without watched resource creates one.
nackTable_Creates(wrs, request) ==
    LET t == request.TypeUrl IN
    IF t \in DOMAIN wrs
    THEN [wrs EXCEPT ![t] = recordNack(@, request)]
    ELSE MapPut(wrs, t, recordNack(NewWatchedResource(t, <<>>), request))

\* if w, f := con.proxy.WatchedResources[request.TypeUrl]; f { w.NonceNacked
\* = request.ResponseNonce }: the table afterwards.
nackTable(wrs, request) ==
    LET t == request.TypeUrl IN
    IF t \in DOMAIN wrs
    THEN [wrs EXCEPT ![t] = recordNack(@, request)]
    ELSE wrs

\* Mutant: the mismatch of the two ACK tests panics in every build.
ackMismatchPanics_Always(newAck, oldAck) == newAck # oldAck

\* if newAck != oldAck { ...; if features.EnableUnsafeAssertions { panic } }.
ackMismatchPanics(newAck, oldAck) ==
    (newAck # oldAck) /\ EnableUnsafeAssertions

shouldRespondDelta(wrs, request) ==
    LET t == request.TypeUrl IN
    IF request.ErrorDetail
    THEN [respond |-> FALSE, rule |-> "nack", panic |-> FALSE,
          wrs |-> nackTable(wrs, request)]
    ELSE IF t \notin DOMAIN wrs
    THEN [respond |-> TRUE, rule |-> "init", panic |-> FALSE,
          wrs |-> MapPut(wrs, t,
                     NewWatchedResource(t, deltaWatchedResources(<<>>, request)))]
    ELSE IF expiredNonce(request, wrs[t])
    THEN [respond |-> FALSE, rule |-> "stale", panic |-> FALSE,
          wrs |-> [wrs EXCEPT ![t].NonceNacked = EmptyString]]
    ELSE LET previousResources == wrs[t].ResourceNames
             deltaResources == deltaWatchedResources(previousResources, request)
             oldAck == listEqualUnordered(previousResources, deltaResources)
             newAck == request.ResponseNonce # EmptyString
         IN  [respond |-> ~oldAck, rule |-> "ack",
              panic |-> ackMismatchPanics(newAck, oldAck),
              wrs |-> [wrs EXCEPT ![t] = recordAck(@, request, deltaResources)]]

\* What shouldRespondDelta does with the lock of con.proxy, in order: the
\* calls of Lock, Unlock, RLock and RUnlock, and between them the reads and
\* writes of the table.
shouldRespondDeltaOps(wrs, request) ==
    LET t == request.TypeUrl IN
    IF request.ErrorDetail
    THEN <<"Lock", "read">> \o (IF t \in DOMAIN wrs THEN <<"write">> ELSE <<>>)
             \o <<"Unlock">>
    ELSE <<"RLock", "read", "RUnlock">> \o
         (IF t \notin DOMAIN wrs THEN <<"Lock", "write", "Unlock">>
          ELSE IF expiredNonce(request, wrs[t]) THEN <<"Lock", "write", "Unlock">>
          ELSE <<"Lock", "read", "write", "Unlock">>)

(***************************************************************************)
(* The send path.                                                          *)
(***************************************************************************)
\* strings.HasPrefix(typeUrl, v3.DebugType): no type of the model is one.
isDebugType(t) == t = "debug"

\* discovery.DeltaDiscoveryResponse
Response(t, version, nonce, resources, removed) ==
    [TypeUrl |-> t, SystemVersionInfo |-> version, Nonce |-> nonce,
     Resources |-> resources, RemovedResources |-> removed]

NoResponse == Response("", EmptyString, EmptyString, <<>>, <<>>)

\* Mutant: the frame is sent with the lock held.
sendDeltaOps_SendLocked(res, sendOk) ==
    <<"Lock", "send">> \o
    (IF sendOk /\ res.Nonce # EmptyString /\ ~isDebugType(res.TypeUrl)
     THEN <<"read", "write">> ELSE <<>>) \o <<"Unlock">>

\* What Connection.sendDelta does, in order: the send on the stream, and the
\* update of the table under the lock.
sendDeltaOps(res, sendOk) ==
    <<"send">> \o
    (IF sendOk /\ res.Nonce # EmptyString /\ ~isDebugType(res.TypeUrl)
     THEN <<"Lock", "read", "write", "Unlock">> ELSE <<>>)

\* Mutant: the watched resource is updated whether or not the send succeeds.
sendDelta_RecordOnFailure(wrs, res, sendOk, time) ==
    IF res.Nonce # EmptyString /\ ~isDebugType(res.TypeUrl)
    THEN LET t == res.TypeUrl
             w == IF t \in DOMAIN wrs THEN wrs[t] ELSE NewWatchedResource(t, <<>>)
         IN  MapPut(wrs, t, [w EXCEPT !.NonceSent = res.Nonce,
                                      !.VersionSent = res.SystemVersionInfo,
                                      !.LastSent = time])
    ELSE wrs

\* Mutant: the version sent is not recorded.
sendDelta_KeepVersion(wrs, res, sendOk, time) ==
    IF sendOk /\ res.Nonce # EmptyString /\ ~isDebugType(res.TypeUrl)
    THEN LET t == res.TypeUrl
             w == IF t \in DOMAIN wrs THEN wrs[t] ELSE NewWatchedResource(t, <<>>)
         IN  MapPut(wrs, t, [w EXCEPT !.NonceSent = res.Nonce,
                                      !.LastSent = time])
    ELSE wrs

\* Connection.sendDelta: the table after the call; sendOk is the outcome of
\* istiogrpc.Send on the stream.
sendDelta(wrs, res, sendOk, time) ==
    IF sendOk /\ res.Nonce # EmptyString /\ ~isDebugType(res.TypeUrl)
    THEN LET t == res.TypeUrl
             w == IF t \in DOMAIN wrs THEN wrs[t] ELSE NewWatchedResource(t, <<>>)
         IN  MapPut(wrs, t, [w EXCEPT !.NonceSent = res.Nonce,
                                      !.VersionSent = res.SystemVersionInfo,
                                      !.LastSent = time])
    ELSE wrs

\* The outcome of one push attempt, or of a deferral, for one type.
Outcome(result, err, frame, req) ==
    [result |-> result, err |-> err, frame |-> frame, req |-> req]

\* Mutant: nothing is registered when there is nothing to send.
registerEvent_Never(t, version) == <<>>

\* if s.StatusReporter != nil { s.StatusReporter.RegisterEvent(conID, t,
\* version) }: the events registered.
registerEvent(t, version) ==
    IF log.statusReporter THEN <<[TypeUrl |-> t, version |-> version]>> ELSE <<>>

\* Mutant: the removed list of a delta-capable generator is taken verbatim
\* whether or not the generator used deltas.
removedResources_DeltaCapable(g, req, names) ==
    IF g.gen = "delta" THEN g.deleted
    ELSE IF req.Full THEN SortedList(Range(names) \ Range(g.names))
    ELSE <<>>

\* Mutant: deletions are inferred for incremental pushes too.
removedResources_AlwaysInfer(g, req, names) ==
    IF g.usedDelta THEN g.deleted
    ELSE SortedList(Range(names) \ Range(g.names))

\* resp.RemovedResources as pushDeltaXds computes it; names are the
\* ResourceNames of the watched resource handed to the generator.
removedResources(g, req, names) ==
    IF g.usedDelta THEN g.deleted
    ELSE IF req.Full THEN SortedList(Range(names) \ Range(g.names))
    ELSE <<>>

\* Mutant: the names of any type pushed without subscribe list are overwritten.
overwriteNames_AnyType(wrs, t, subscribe, currentResources) ==
    IF subscribe = <<>>
    THEN [wrs EXCEPT ![t].ResourceNames = currentResources]
    ELSE wrs

\* Mutant: the stored names are left as they were.
overwriteNames_Never(wrs, t, subscribe, currentResources) == wrs

\* if subscribe == nil && isWildcardTypeURL(w.TypeUrl) { w.ResourceNames =
\* currentResources }: the table afterwards.
overwriteNames(wrs, t, subscribe, currentResources) ==
    IF subscribe = <<>> /\ isWildcardTypeURL(t)
    THEN [wrs EXCEPT ![t].ResourceNames = currentResources]
    ELSE wrs

\* What the inference of the removed names does: it reads the names of the
\* watched resource without the lock (line 469); the watched resource is the
\* entry of the table unless subscribe replaced it by a local value.
removedResourcesOps(g, req, subscribe) ==
    IF ~g.usedDelta /\ req.Full /\ subscribe = <<>> THEN <<"read">> ELSE <<>>

\* What lines 478-483 do with the lock.
overwriteNamesOps(t, subscribe) ==
    IF subscribe = <<>> /\ isWildcardTypeURL(t)
    THEN <<"Lock", "write", "Unlock">>
    ELSE <<>>

\* DiscoveryServer.pushDeltaXds for type t: the table and the nonce counter
\* after the call, and the outcome. subscribe is the subscribe list of the
\* request that triggered the push, <<>> (nil) for a push event.
pushDeltaXds(wrs, ctr, push, t, subscribe, req, env, time) ==
    LET g == env.g IN
    IF t \notin DOMAIN wrs
    THEN [wrs |-> wrs, ctr |-> ctr, report |-> <<>>, ops |-> <<>>,
          out |-> Outcome("nowatch", FALSE, NoResponse, req)]
    ELSE IF g.gen = "none"
    THEN [wrs |-> wrs, ctr |-> ctr, report |-> <<>>, ops |-> <<>>,
          out |-> Outcome("nogen", FALSE, NoResponse, req)]
    ELSE IF g.err
    THEN [wrs |-> wrs, ctr |-> ctr, report |-> registerEvent(t, push),
          ops |-> <<"generate">>,
          out |-> Outcome("generr", TRUE, NoResponse, req)]
    ELSE IF g.resNil /\ g.delNil
    THEN [wrs |-> wrs, ctr |-> ctr, report |-> registerEvent(t, push),
          ops |-> <<"generate">>,
          out |-> Outcome("nothing", FALSE, NoResponse, req)]
    ELSE LET names == IF subscribe # <<>> THEN subscribe ELSE wrs[t].ResourceNames
             currentResources == g.names
             resp == Response(t, push, ctr + 1, currentResources,
                              removedResources(g, req, names))
             wrs1 == overwriteNames(wrs, t, subscribe, currentResources)
         IN  [wrs |-> sendDelta(wrs1, resp, env.sendOk, time),
              ctr |-> ctr + 1,
              report |-> <<>>,
              ops |-> <<"generate">>
                      \o removedResourcesOps(g, req, subscribe)
                      \o overwriteNamesOps(t, subscribe)
                      \o sendDeltaOps(resp, env.sendOk),
              out |-> IF env.sendOk
                      THEN Outcome("sent", FALSE, resp, req)
                      ELSE Outcome("senderr", TRUE, resp, req)]

(***************************************************************************)
(* The record of the last handler.                                         *)
(***************************************************************************)
NoReq == [TypeUrl |-> "", ResourceNamesSubscribe |-> <<>>,
          ResourceNamesUnsubscribe |-> <<>>, ResponseNonce |-> EmptyString,
          ErrorDetail |-> FALSE]

NoPushRequest == PushRequest(FALSE, EmptyString, {})

Last(kind, req, ev, rule, respond, results) ==
    [kind |-> kind, req |-> req, ev |-> ev, rule |-> rule,
     respond |-> respond, results |-> results]

\* What StreamDeltas does with a handler's error: it returns it.
Returned(err) == IF err = "" THEN "active" ELSE "closed"

ErrorOf(out) == IF out.err THEN out.result ELSE ""

(***************************************************************************)
(* processDeltaRequest, as called from the select loop of StreamDeltas.    *)
(***************************************************************************)
\* Mutant: a blocked push is left alone when no response is owed.
requestFor_IgnoreBlocked(shouldRespond, blocked, t, push) ==
    IF shouldRespond
    THEN [push |-> TRUE, request |-> PushRequest(TRUE, push, {}), blocked |-> blocked]
    ELSE [push |-> FALSE, request |-> NoPushRequest, blocked |-> blocked]

\* Mutant: the response owed to a request is an incremental push.
requestFor_Incremental(shouldRespond, blocked, t, push) ==
    IF shouldRespond
    THEN [push |-> TRUE, request |-> PushRequest(FALSE, push, {}), blocked |-> blocked]
    ELSE IF t \in DOMAIN blocked
    THEN [push |-> TRUE, request |-> blocked[t], blocked |-> MapDelete(blocked, t)]
    ELSE [push |-> FALSE, request |-> NoPushRequest, blocked |-> blocked]

\* Mutant: a blocked push takes priority over the fresh full push.
requestFor_PreferBlocked(shouldRespond, blocked, t, push) ==
    IF t \in DOMAIN blocked
    THEN [push |-> TRUE, request |-> blocked[t], blocked |-> MapDelete(blocked, t)]
    ELSE IF shouldRespond
    THEN [push |-> TRUE, request |-> PushRequest(TRUE, push, {}), blocked |-> blocked]
    ELSE [push |-> FALSE, request |-> NoPushRequest, blocked |-> blocked]

\* Mutant: the blocked push is taken out, and a fresh full push is sent.
requestFor_FreshForBlocked(shouldRespond, blocked, t, push) ==
    IF shouldRespond
    THEN [push |-> TRUE, request |-> PushRequest(TRUE, push, {}), blocked |-> blocked]
    ELSE IF t \in DOMAIN blocked
    THEN [push |-> TRUE, request |-> PushRequest(TRUE, push, {}),
          blocked |-> MapDelete(blocked, t)]
    ELSE [push |-> FALSE, request |-> NoPushRequest, blocked |-> blocked]

\* The push request processDeltaRequest answers a request of type t with:
\* push says whether it goes on to pushDeltaXds, blocked is the map of
\* blocked pushes afterwards.
requestFor(shouldRespond, blocked, t, push) ==
    IF shouldRespond
    THEN [push |-> TRUE, request |-> PushRequest(TRUE, push, {}), blocked |-> blocked]
    ELSE IF t \in DOMAIN blocked
    THEN [push |-> TRUE, request |-> blocked[t], blocked |-> MapDelete(blocked, t)]
    ELSE [push |-> FALSE, request |-> NoPushRequest, blocked |-> blocked]

processDeltaRequest(req, env) ==
    LET t == req.TypeUrl
        sr == shouldRespondDelta(WatchedResources, req)
        push == globalPush
        rf == requestFor(sr.respond, blockedPushes, t, push)
        request == [rf.request EXCEPT !.Reason = @ \cup {ProxyRequest}]
        p == pushDeltaXds(sr.wrs, nonceCtr, push, t,
                          req.ResourceNamesSubscribe, request, env, now)
    IN  /\ status = "active"
        /\ IF sr.panic
           THEN /\ WatchedResources' = sr.wrs
                /\ status' = "closed"
                /\ retErr' = "panic"
                /\ last' = Last("request", req, NoPushRequest, sr.rule, sr.respond, EmptyMap)
                /\ UNCHANGED <<blockedPushes, nonceCtr>>
           ELSE IF ~rf.push
           THEN /\ WatchedResources' = sr.wrs
                /\ blockedPushes' = rf.blocked
                /\ last' = Last("request", req, NoPushRequest, sr.rule, sr.respond, EmptyMap)
                /\ UNCHANGED <<nonceCtr, status, retErr>>
           ELSE /\ p.ctr <= MaxNonce
                /\ WatchedResources' = p.wrs
                /\ blockedPushes' = rf.blocked
                /\ nonceCtr' = p.ctr
                /\ status' = Returned(ErrorOf(p.out))
                /\ retErr' = ErrorOf(p.out)
                /\ last' = Last("request", req, NoPushRequest, sr.rule, sr.respond,
                                MapPut(EmptyMap, t, p.out))
        /\ UNCHANGED <<globalPush, now, EnableFlowControl>>

\* An environment for a handler that tries no push.
NoEnv == [g |-> GenOut("none", FALSE, TRUE, <<>>, TRUE, <<>>, FALSE), sendOk |-> TRUE]

\* Whether processDeltaRequest reaches pushDeltaXds for req.
pushTried(req) ==
    requestFor(shouldRespondDelta(WatchedResources, req).respond,
               blockedPushes, req.TypeUrl, globalPush).push

\* The main actor takes one of the requests R from con.deltaReqChan.
processRequests(R) ==
    \E req \in R :
        \E env \in (IF pushTried(req) THEN Envs ELSE {NoEnv}) :
            processDeltaRequest(req, env)

\* The requests of a client that uses a single resource type on the stream.
OneTypeRequests ==
    {req \in Requests :
        DOMAIN WatchedResources # {} => req.TypeUrl \in DOMAIN WatchedResources}

ProcessDeltaRequest ==
    processRequests(OneTypeRequests) /\ UNCHANGED streamVars

(***************************************************************************)
(* pushConnectionDelta, as called from the select loop of StreamDeltas.    *)
(***************************************************************************)
\* Connection.pushDetails: the watched types, in push order.
pushDetails(wrs) == SelectSeq(PushOrder, LAMBDA t : t \in DOMAIN wrs)

\* Mutant: the first push request deferred is stored as an incremental one.
blockedMerge_FirstIncremental(blocked, t, request) ==
    IF t \in DOMAIN blocked THEN CopyMerge(blocked[t], request)
    ELSE [request EXCEPT !.Full = FALSE]

\* Mutant: the new push request replaces the blocked one.
blockedMerge_Replace(blocked, t, request) == request

\* con.blockedPushes[t].CopyMerge(request): a nil receiver yields request.
blockedMerge(blocked, t, request) ==
    IF t \in DOMAIN blocked THEN CopyMerge(blocked[t], request) ELSE request

\* Mutant: the flow-control rule applies whatever the setting.
pushNow_AlwaysFlowControl(flowControl, wrs, t, time) ==
    \/ Synced(wrs, t, time).synced
    \/ Synced(wrs, t, time).timeout

\* Mutant: every type is deferred, whatever the setting and its state.
pushNow_Never(flowControl, wrs, t, time) == FALSE

\* Mutant: every type is pushed at once, acknowledged or not.
pushNow_Always(flowControl, wrs, t, time) == TRUE

\* Mutant: an acknowledged type waits for the timeout like any other.
pushNow_IgnoreSync(flowControl, wrs, t, time) ==
    \/ ~flowControl
    \/ Synced(wrs, t, time).timeout

\* Mutant: a type that is stuck is never forced.
pushNow_NoTimeout(flowControl, wrs, t, time) ==
    \/ ~flowControl
    \/ Synced(wrs, t, time).synced

\* Whether the loop of pushConnectionDelta pushes type t now.
pushNow(flowControl, wrs, t, time) ==
    \/ ~flowControl
    \/ Synced(wrs, t, time).synced
    \/ Synced(wrs, t, time).timeout

\* What Connection.Synced does with the lock; it is called only when flow
\* control is enabled.
SyncedOps(flowControl) ==
    IF flowControl THEN <<"RLock", "read", "RUnlock">> ELSE <<>>

\* Mutant: the push of a type that is synced runs with the lock held.
pushOneOps_PushLocked(doPush, flowControl, pushOps) ==
    SyncedOps(flowControl) \o
    (IF doPush THEN <<"Lock">> \o pushOps \o <<"Unlock">>
     ELSE <<"Lock", "read", "write", "Unlock">>)

\* What one iteration of the loop does: the test of Synced, then the push
\* (pushOps are the operations of pushDeltaXds) or the deferral under the lock.
pushOneOps(doPush, flowControl, pushOps) ==
    SyncedOps(flowControl) \o
    (IF doPush THEN pushOps ELSE <<"Lock", "read", "write", "Unlock">>)

\* One iteration of the loop of pushConnectionDelta, for watched type t;
\* st holds the table, the blocked pushes, the nonce counter, the outcomes
\* so far, the events registered with the status reporter and the error
\* that ended the loop ("" when none did).
pushOne(st, t, pushRequest, env, flowControl, time) ==
    IF pushNow(flowControl, st.wrs, t, time)
    THEN LET p == pushDeltaXds(st.wrs, st.ctr, pushRequest.Push, t, <<>>,
                               pushRequest, env, time)
         IN  [wrs |-> p.wrs, blocked |-> st.blocked, ctr |-> p.ctr,
              results |-> MapPut(st.results, t, p.out),
              reports |-> st.reports \o p.report,
              ops |-> st.ops \o pushOneOps(TRUE, flowControl, p.ops),
              err |-> ErrorOf(p.out)]
    ELSE LET merged == blockedMerge(st.blocked, t, pushRequest)
         IN  [wrs |-> st.wrs, blocked |-> MapPut(st.blocked, t, merged),
              ctr |-> st.ctr,
              results |-> MapPut(st.results, t,
                                 Outcome("deferred", FALSE, NoResponse, merged)),
              reports |-> st.reports,
              ops |-> st.ops \o pushOneOps(FALSE, flowControl, <<>>),
              err |-> ""]

\* Mutant: the loop goes on to the remaining types after a failed push, and
\* returns the first error.
RECURSIVE pushLoop_GoesOn(_, _, _, _, _, _, _)
pushLoop_GoesOn(i, wrl, st, pushRequest, envs, flowControl, time) ==
    IF i > Len(wrl) THEN st
    ELSE LET n == pushOne(st, wrl[i], pushRequest, envs[wrl[i]], flowControl, time)
         IN  pushLoop_GoesOn(i + 1, wrl,
                             [n EXCEPT !.err = IF st.err # "" THEN st.err ELSE @],
                             pushRequest, envs, flowControl, time)

\* The loop of pushConnectionDelta over the watched types wrl, from the i-th
\* on: it returns at the first push that fails.
RECURSIVE pushLoop(_, _, _, _, _, _, _)
pushLoop(i, wrl, st, pushRequest, envs, flowControl, time) ==
    IF i > Len(wrl) \/ st.err # "" THEN st
    ELSE pushLoop(i + 1, wrl,
                  pushOne(st, wrl[i], pushRequest, envs[wrl[i]], flowControl, time),
                  pushRequest, envs, flowControl, time)

\* needsPush is the answer of ProxyNeedsPush, envs the environment of the
\* push of each watched type.
pushLoopEnd(pushRequest, needsPush, envs) ==
    LET st0 == [wrs |-> WatchedResources, blocked |-> blockedPushes,
                ctr |-> nonceCtr, results |-> EmptyMap, reports |-> <<>>,
                ops |-> <<>>, err |-> ""]
    IN  IF needsPush
        THEN pushLoop(1, pushDetails(WatchedResources), st0, pushRequest,
                      envs, EnableFlowControl, now)
        ELSE st0

pushConnectionDelta(pushRequest, needsPush, envs) ==
    LET st == pushLoopEnd(pushRequest, needsPush, envs)
    IN  /\ status = "active"
        /\ st.ctr <= MaxNonce
        /\ WatchedResources' = st.wrs
        /\ blockedPushes' = st.blocked
        /\ nonceCtr' = st.ctr
        /\ status' = Returned(st.err)
        /\ retErr' = st.err
        /\ last' = Last(IF needsPush THEN "push" ELSE "skip", NoReq, pushRequest,
                        "", FALSE, st.results)
        /\ UNCHANGED <<globalPush, now, EnableFlowControl>>

\* The environments that matter to a push event: those of the types it pushes.
EventEnvs(needsPush) ==
    {envs \in [DOMAIN WatchedResources -> Envs \cup {NoEnv}] :
        \A t \in DOMAIN WatchedResources :
            envs[t] = NoEnv <=>
                ~(needsPush /\ pushNow(EnableFlowControl, WatchedResources, t, now))}

PushConnectionDelta ==
    /\ \E pushRequest \in EventRequests(globalPush), needsPush \in BOOLEAN :
          \E envs \in EventEnvs(needsPush) :
              pushConnectionDelta(pushRequest, needsPush, envs)
    /\ UNCHANGED streamVars

(***************************************************************************)
(* The environment: configuration changes and the clock.                   *)
(***************************************************************************)
\* The Discovery Server publishes a new push context.
ConfigUpdate ==
    /\ status = "active"
    /\ globalPush < 1 + MaxVersion
    /\ globalPush' = globalPush + 1
    /\ last' = Last("config", NoReq, NoPushRequest, "", FALSE, EmptyMap)
    /\ UNCHANGED <<WatchedResources, blockedPushes, nonceCtr, now,
                   EnableFlowControl, status, retErr>>
    /\ UNCHANGED streamVars

\* Time passes.
Tick ==
    /\ status = "active"
    /\ now < FlowControlTimeout + 1 + MaxTicks
    /\ now' = now + 1
    /\ last' = Last("tick", NoReq, NoPushRequest, "", FALSE, EmptyMap)
    /\ UNCHANGED <<WatchedResources, blockedPushes, globalPush, nonceCtr,
                   EnableFlowControl, status, retErr>>
    /\ UNCHANGED streamVars

(***************************************************************************)
(* The channels of a connection.                                           *)
(***************************************************************************)
\* A channel that holds nothing and is open.
NewChan == [buf |-> <<>>, closed |-> FALSE]

\* No frame in the hands of the receiveDelta goroutine.
NoFrame == [id |-> 0, node |-> FALSE, req |-> NoReq]

\* The receiveDelta goroutine in Recv: pc is "unborn" (not started), "recv"
\* (in Recv), "init" (in initConnection, the connection registered), "send"
\* (sending the frame to con.deltaReqChan) or "done"; firstRequest is the
\* flag of the code, frame the frame in hand, n the number of frames
\* received.
Receiving(firstRequest, n) ==
    [pc |-> "recv", firstRequest |-> firstRequest, frame |-> NoFrame, n |-> n]

\* What has happened on the stream: the ids of the frames processed and of
\* the events delivered, in order; the number of events offered, and those
\* offered before the main actor entered its loop; whether the first frame
\* came without a node, whether initConnection has run and whether it has
\* succeeded; whether s.StatusReporter is set, the events the last handler
\* registered with it from pushDeltaXds, and the generator outcomes the
\* last handler met; what the last handler did with the lock of con.proxy;
\* the statements the last push case of the select ran, and the ids of the
\* events whose done callback was invoked, one per invocation; how many times
\* each channel was closed, how many errors were written to con.errorChan
\* and whether a write found the channel full or closed; the request whose
\* classification is under way, and the previous info of its type that
\* shouldRespondDelta has read.
NoLog == [processed |-> <<>>, offered |-> 0, delivered |-> <<>>,
          early |-> {}, nodeless |-> FALSE, initRun |-> FALSE, initOk |-> FALSE,
          statusReporter |-> FALSE, events |-> <<>>, gens |-> EmptyMap,
          ops |-> <<>>, pushCase |-> <<>>, done |-> <<>>,
          closes |-> [deltaReqChan |-> 0, errorChan |-> 0, initialized |-> 0],
          errWrites |-> 0, errBlocked |-> FALSE,
          inHand |-> <<>>, previousInfo |-> <<>>]

\* The stream of a connection in service: initConnection has run, the main
\* actor is in its select loop, nothing waits in the channels.
StreamServing ==
    /\ receive = Receiving(FALSE, 0)
    /\ deltaReqChan = NewChan
    /\ errorChan = NewChan
    /\ initialized = TRUE
    /\ stop = FALSE
    /\ pushChannel = <<>>
    /\ registered = TRUE
    /\ log = [NoLog EXCEPT !.initRun = TRUE, !.initOk = TRUE,
                           !.closes.initialized = 1]

(***************************************************************************)
(* The connection after newDeltaConnection and initConnection: no watched  *)
(* resource, no blocked push.  The clock starts late enough for the zero   *)
(* time to be further back than the flow-control timeout.                  *)
(***************************************************************************)
Init ==
    /\ StreamServing
    /\ WatchedResources = EmptyMap
    /\ blockedPushes = EmptyMap
    /\ globalPush = 1
    /\ nonceCtr = 0
    /\ now = FlowControlTimeout + 1
    /\ EnableFlowControl \in BOOLEAN
    /\ status = "active"
    /\ retErr = ""
    /\ last = Last("none", NoReq, NoPushRequest, "", FALSE, EmptyMap)

\* The main actor of the connection: one request or one push event at a time.
Next ==
    \/ ProcessDeltaRequest
    \/ PushConnectionDelta

Spec == Init /\ [][Next]_vars

\* The main actor, with configuration changes and the passing of time.
NextTimed ==
    \/ ProcessDeltaRequest
    \/ PushConnectionDelta
    \/ ConfigUpdate
    \/ Tick

SpecTimed == Init /\ [][NextTimed]_vars

\* The main actor of a connection whose client uses both resource types and
\* never unsubscribes, with flow control disabled.
TwoTypeRequests ==
    {req \in Requests :
        /\ req.ResourceNamesSubscribe \in {<<>>, <<"a1">>}
        /\ req.ResourceNamesUnsubscribe = <<>>}

ProcessAnyTypeRequest ==
    processRequests(TwoTypeRequests) /\ UNCHANGED streamVars

InitNoFlowControl == Init /\ ~EnableFlowControl

NextPush ==
    \/ ProcessAnyTypeRequest
    \/ PushConnectionDelta

SpecPush == InitNoFlowControl /\ [][NextPush]_vars

\* The main actor of a connection with flow control enabled whose client
\* uses both resource types, subscribes to a1 in every request, never
\* unsubscribes, never rejects a response and echoes no nonce but the last
\* one it was sent, while time passes.  The generators return an error,
\* nothing or the resource a1.
FlowRequests ==
    {req \in Requests :
        /\ req.ResourceNamesSubscribe = <<"a1">>
        /\ req.ResourceNamesUnsubscribe = <<>>
        /\ ~req.ErrorDetail
        /\ \/ req.ResponseNonce = EmptyString
           \/ /\ req.TypeUrl \in DOMAIN WatchedResources
              /\ req.ResponseNonce = WatchedResources[req.TypeUrl].NonceSent}

FlowEnvs == {e \in Envs : e.g.names # <<"a2", "a1">>}

ProcessFlowRequest ==
    /\ \E req \in FlowRequests :
          \E env \in (IF pushTried(req) THEN FlowEnvs ELSE {NoEnv}) :
              processDeltaRequest(req, env)
    /\ UNCHANGED streamVars

PushFlowConnectionDelta ==
    /\ \E pushRequest \in EventRequests(globalPush), needsPush \in BOOLEAN :
          \E envs \in {e \in EventEnvs(needsPush) :
                          \A t \in DOMAIN e : e[t] \in FlowEnvs \cup {NoEnv}} :
              pushConnectionDelta(pushRequest, needsPush, envs)
    /\ UNCHANGED streamVars

InitFlowControl == Init /\ EnableFlowControl

NextFlow ==
    \/ ProcessFlowRequest
    \/ PushFlowConnectionDelta
    \/ Tick

SpecFlow == InitFlowControl /\ [][NextFlow]_vars

\* The same client and generators on a connection with or without flow
\* control.
SpecFlowEither == Init /\ [][NextFlow]_vars

\* The main actor of a connection with flow control enabled whose client
\* uses a single resource type and the name a1, never rejects a response and
\* echoes no nonce but the last one it was sent, while new configurations
\* are published.
MergeRequests ==
    {req \in OneTypeRequests :
        /\ req.ResourceNamesSubscribe \in {<<>>, <<"a1">>}
        /\ ~req.ErrorDetail
        /\ \/ req.ResponseNonce = EmptyString
           \/ /\ req.TypeUrl \in DOMAIN WatchedResources
              /\ req.ResponseNonce = WatchedResources[req.TypeUrl].NonceSent}

ProcessMergeRequest ==
    processRequests(MergeRequests) /\ UNCHANGED streamVars

NextMerge ==
    \/ ProcessMergeRequest
    \/ PushConnectionDelta
    \/ ConfigUpdate

SpecMerge == InitFlowControl /\ [][NextMerge]_vars

\* The main actor of a connection with or without flow control, with or
\* without a status reporter, whose client uses a
\* single resource type, never rejects a response and echoes no nonce but
\* the last one it was sent, with
\* generators of both kinds: the ones of GenOutcomes, a generator that
\* returns an empty list of resources, no generator at all, and a
\* delta-capable generator that fails, returns nothing, uses deltas (with
\* and without removed resources) or falls back to a full generation.
MoreGenOutcomes ==
    { GenOut("none", FALSE, TRUE, <<>>, TRUE, <<>>, FALSE),
      GenOut("sotw", FALSE, FALSE, <<>>, TRUE, <<>>, FALSE),
      GenOut("delta", TRUE, TRUE, <<>>, TRUE, <<>>, FALSE),
      GenOut("delta", FALSE, TRUE, <<>>, TRUE, <<>>, FALSE),
      GenOut("delta", FALSE, FALSE, <<"a1">>, FALSE, <<"a2">>, TRUE),
      GenOut("delta", FALSE, FALSE, <<"a2">>, TRUE, <<>>, TRUE),
      GenOut("delta", FALSE, TRUE, <<>>, FALSE, <<"a1">>, TRUE),
      GenOut("delta", FALSE, FALSE, <<"a1">>, TRUE, <<>>, FALSE) }

GenEnvs ==
    {e \in [g : GenOutcomes \cup MoreGenOutcomes, sendOk : BOOLEAN] :
        e.sendOk \/ (e.g.gen # "none" /\ ~e.g.err /\ ~(e.g.resNil /\ e.g.delNil))}

GenRequests ==
    {req \in OneTypeRequests :
        /\ ~req.ErrorDetail
        /\ \/ req.ResponseNonce = EmptyString
           \/ /\ req.TypeUrl \in DOMAIN WatchedResources
              /\ req.ResponseNonce = WatchedResources[req.TypeUrl].NonceSent}

\* The call of pushDeltaXds by processDeltaRequest when it handles req: the
\* events it registers with the status reporter and what it does with the
\* lock (nothing when it is not called).
requestPush(req, env) ==
    LET sr == shouldRespondDelta(WatchedResources, req)
        rf == requestFor(sr.respond, blockedPushes, req.TypeUrl, globalPush)
    IN  IF rf.push /\ ~sr.panic
        THEN pushDeltaXds(sr.wrs, nonceCtr, globalPush, req.TypeUrl,
                          req.ResourceNamesSubscribe, rf.request, env, now)
        ELSE [report |-> <<>>, ops |-> <<>>]

\* Mutant: the blocked push is taken out and pushed with the lock held.
requestOps_DequeueLocked(req, env) ==
    LET sr == shouldRespondDelta(WatchedResources, req)
    IN  shouldRespondDeltaOps(WatchedResources, req) \o
        (IF sr.respond THEN requestPush(req, env).ops
         ELSE <<"Lock", "read", "write">> \o requestPush(req, env).ops
                  \o <<"Unlock">>)

\* What processDeltaRequest does with the lock when it handles req: the
\* classification, the dequeue of the blocked push under the lock when no
\* response is owed, and the push.
requestOps(req, env) ==
    LET sr == shouldRespondDelta(WatchedResources, req)
    IN  shouldRespondDeltaOps(WatchedResources, req) \o
        (IF sr.respond THEN <<>> ELSE <<"Lock", "read", "write", "Unlock">>) \o
        requestPush(req, env).ops

ProcessGenRequest ==
    /\ \E req \in GenRequests :
          \E env \in (IF pushTried(req) THEN GenEnvs ELSE {NoEnv}) :
              /\ processDeltaRequest(req, env)
              /\ log' = [log EXCEPT
                            !.events = requestPush(req, env).report,
                            !.ops = requestOps(req, env),
                            !.gens = IF pushTried(req)
                                     THEN MapPut(EmptyMap, req.TypeUrl, env.g)
                                     ELSE EmptyMap]
    /\ UNCHANGED <<receive, deltaReqChan, errorChan, initialized, stop,
                   pushChannel, registered>>

\* The environments of a push event of this connection.
GenEventEnvs(needsPush) ==
    {envs \in [DOMAIN WatchedResources -> GenEnvs \cup {NoEnv}] :
        \A t \in DOMAIN WatchedResources :
            envs[t] = NoEnv <=>
                ~(needsPush /\ pushNow(EnableFlowControl, WatchedResources, t, now))}

PushGenConnectionDelta ==
    /\ \E pushRequest \in EventRequests(globalPush), needsPush \in BOOLEAN :
          \E envs \in GenEventEnvs(needsPush) :
              LET st == pushLoopEnd(pushRequest, needsPush, envs)
              IN  /\ pushConnectionDelta(pushRequest, needsPush, envs)
                  /\ log' = [log EXCEPT
                                !.events = st.reports,
                                !.ops = st.ops,
                                !.gens = [t \in DOMAIN st.results |-> envs[t].g]]
    /\ UNCHANGED <<receive, deltaReqChan, errorChan, initialized, stop,
                   pushChannel, registered>>

\* The connection in service, with or without a status reporter.
InitGen ==
    /\ receive = Receiving(FALSE, 0)
    /\ deltaReqChan = NewChan
    /\ errorChan = NewChan
    /\ initialized = TRUE
    /\ stop = FALSE
    /\ pushChannel = <<>>
    /\ registered = TRUE
    /\ \E reporter \in BOOLEAN :
          log = [NoLog EXCEPT !.initRun = TRUE, !.initOk = TRUE,
                              !.closes.initialized = 1,
                              !.statusReporter = reporter]
    /\ WatchedResources = EmptyMap
    /\ blockedPushes = EmptyMap
    /\ globalPush = 1
    /\ nonceCtr = 0
    /\ now = FlowControlTimeout + 1
    /\ EnableFlowControl \in BOOLEAN
    /\ status = "active"
    /\ retErr = ""
    /\ last = Last("none", NoReq, NoPushRequest, "", FALSE, EmptyMap)

NextGen ==
    \/ ProcessGenRequest
    \/ PushGenConnectionDelta

\* ... without flow control.
InitGenNoFlowControl == InitGen /\ ~EnableFlowControl

SpecGen == InitGenNoFlowControl /\ [][NextGen]_vars

\* The same connection with flow control enabled and no status reporter: a
\* push of a type whose last frame is unacknowledged is deferred under the
\* lock.
InitLock ==
    /\ InitGen
    /\ EnableFlowControl = TRUE
    /\ log.statusReporter = FALSE

SpecLock == InitLock /\ [][NextGen]_vars

(***************************************************************************)
(* The stream: StreamDeltas from its start, the receiveDelta goroutine and *)
(* the channels between them.                                              *)
(***************************************************************************)
\* The variables of the main actor's handlers.
tableVars == <<WatchedResources, blockedPushes, globalPush, nonceCtr, now,
               EnableFlowControl>>

\* A step that is no handler of the select loop.
Step(kind) == Last(kind, NoReq, NoPushRequest, "", FALSE, EmptyMap)

\* The requests of the client of the stream: it uses the type EDS and the
\* name a1, and echoes the first nonce or none.
StreamRequests ==
    {req \in Requests :
        /\ req.TypeUrl = "EDS"
        /\ req.ResourceNamesSubscribe = <<"a1">>
        /\ req.ResourceNamesUnsubscribe = <<>>
        /\ ~req.ErrorDetail
        /\ req.ResponseNonce <= 1}

\* The frames Recv may return: only a first frame may carry the node.
Frames(firstRequest, id) ==
    {[id |-> id, node |-> node, req |-> req] :
        node \in (IF firstRequest THEN BOOLEAN ELSE {FALSE}),
        req \in StreamRequests}

\* The reasons StreamDeltas gives for refusing a stream before it creates
\* the connection.
Refusals ==
    {"server warmup not complete", "server is not ready",
     "request rate limit exceeded", "unauthenticated", "error reading config"}

\* StreamDeltas up to the wait for con.initialized: it refuses the stream,
\* or creates the connection and starts the receiveDelta goroutine.
StreamDeltasStart ==
    /\ status = "new"
    /\ \E refusal \in Refusals \cup {""} :
          /\ status' = IF refusal = "" THEN "waiting" ELSE "closed"
          /\ retErr' = refusal
          /\ receive' = IF refusal = "" THEN Receiving(TRUE, 0) ELSE receive
    /\ last' = Step("start")
    /\ UNCHANGED tableVars
    /\ UNCHANGED <<deltaReqChan, errorChan, initialized, stop, pushChannel,
                   registered, log>>

\* Mutant: the main actor enters its loop without the wait.
MainInitialized_NoWait ==
    /\ status = "waiting"
    /\ status' = "active"
    /\ last' = Step("initialized")
    /\ UNCHANGED <<retErr>>
    /\ UNCHANGED tableVars
    /\ UNCHANGED streamVars

\* <-con.initialized
MainInitialized ==
    /\ status = "waiting"
    /\ initialized
    /\ status' = "active"
    /\ last' = Step("initialized")
    /\ UNCHANGED <<retErr>>
    /\ UNCHANGED tableVars
    /\ UNCHANGED streamVars

\* Mutant: the request is read and left in the channel.
chanRecv_Peek(ch) == [val |-> Head(ch.buf), ch |-> ch]

\* A receive from a channel that holds a value: the value and the channel
\* afterwards.
chanRecv(ch) == [val |-> Head(ch.buf), ch |-> [ch EXCEPT !.buf = Tail(@)]]

\* case req, ok := <-con.deltaReqChan, ok: the request is processed.
MainRequest ==
    /\ deltaReqChan.buf # <<>>
    /\ LET r == chanRecv(deltaReqChan)
       IN  /\ \E env \in (IF pushTried(r.val.req) THEN FlowEnvs ELSE {NoEnv}) :
                 processDeltaRequest(r.val.req, env)
           /\ deltaReqChan' = r.ch
           /\ log' = [log EXCEPT !.processed = Append(@, r.val.id)]
    /\ UNCHANGED <<receive, errorChan, initialized, stop, pushChannel, registered>>

\* Mutant: the closed request channel makes StreamDeltas return nil.
MainClosed_ReturnsNil ==
    /\ status = "active"
    /\ deltaReqChan.buf = <<>>
    /\ deltaReqChan.closed
    /\ status' = "closed"
    /\ retErr' = ""
    /\ last' = Step("closed")
    /\ UNCHANGED tableVars
    /\ UNCHANGED streamVars

\* case req, ok := <-con.deltaReqChan, not ok: return <-con.errorChan, which
\* yields nil when the channel is closed and empty.
MainClosed ==
    /\ status = "active"
    /\ deltaReqChan.buf = <<>>
    /\ deltaReqChan.closed
    /\ errorChan.buf # <<>> \/ errorChan.closed
    /\ status' = "closed"
    /\ retErr' = IF errorChan.buf # <<>> THEN Head(errorChan.buf) ELSE ""
    /\ errorChan' = IF errorChan.buf # <<>>
                    THEN [errorChan EXCEPT !.buf = Tail(@)]
                    ELSE errorChan
    /\ last' = Step("closed")
    /\ UNCHANGED tableVars
    /\ UNCHANGED <<receive, deltaReqChan, initialized, stop, pushChannel,
                   registered, log>>

\* Mutant: the main actor takes the push event offered last.
nextEvent_Last(offers) ==
    [val |-> offers[Len(offers)], rest |-> SubSeq(offers, 1, Len(offers) - 1)]

\* case pushEv := <-con.pushChannel: the event offered first, and the others.
nextEvent(offers) == [val |-> Head(offers), rest |-> Tail(offers)]

\* Mutant: the callback is skipped when the push failed.
pushEventCase_DoneOnSuccess(err) ==
    IF err = "" THEN <<"pushConnectionDelta", "done", "select">>
    ELSE <<"pushConnectionDelta", "return">>

\* The statements of the push case of the select, in order, when
\* pushConnectionDelta returns err: the loop goes back to the select or
\* StreamDeltas returns.
pushEventCase(err) ==
    <<"pushConnectionDelta", "done">>
        \o (IF err = "" THEN <<"select">> ELSE <<"return">>)

\* The invocations of the done callback of event id among statements.
doneCalls(statements, id) ==
    [i \in 1..Len(SelectSeq(statements, LAMBDA x : x = "done")) |-> id]

\* case pushEv := <-con.pushChannel: the event is pushed.
MainPush ==
    /\ pushChannel # <<>>
    /\ LET ev == nextEvent(pushChannel)
       IN  /\ \E needsPush \in BOOLEAN :
                 \E envs \in {e \in EventEnvs(needsPush) :
                                 \A t \in DOMAIN e : e[t] \in FlowEnvs \cup {NoEnv}} :
                     pushConnectionDelta(ev.val.pushRequest, needsPush, envs)
           /\ pushChannel' = ev.rest
           /\ log' = [log EXCEPT
                          !.delivered = Append(@, ev.val.id),
                          !.pushCase = pushEventCase(retErr'),
                          !.done = @ \o doneCalls(pushEventCase(retErr'), ev.val.id)]
    /\ UNCHANGED <<receive, deltaReqChan, errorChan, initialized, stop, registered>>

\* Mutant: the select has no case for con.stop.
MainStop_NoCase ==
    /\ status = "active"
    /\ stop
    /\ UNCHANGED vars

\* case <-con.stop: return nil
MainStop ==
    /\ status = "active"
    /\ stop
    /\ status' = "closed"
    /\ retErr' = ""
    /\ last' = Step("stopped")
    /\ UNCHANGED tableVars
    /\ UNCHANGED streamVars

\* Mutant: the deferred function leaves con.deltaReqChan open.
receiveReturns_RequestsOpen(err) ==
    /\ receive' = [receive EXCEPT !.pc = "done", !.firstRequest = FALSE,
                                  !.frame = NoFrame]
    /\ deltaReqChan' = deltaReqChan
    /\ errorChan' = [buf |-> IF err = "" THEN errorChan.buf
                             ELSE Append(errorChan.buf, err),
                     closed |-> TRUE]
    /\ initialized' = TRUE
    /\ registered' = FALSE

\* Mutant: the deferred function leaves con.initialized as it is.
receiveReturns_NoInitialized(err) ==
    /\ receive' = [receive EXCEPT !.pc = "done", !.firstRequest = FALSE,
                                  !.frame = NoFrame]
    /\ deltaReqChan' = [deltaReqChan EXCEPT !.closed = TRUE]
    /\ errorChan' = [buf |-> IF err = "" THEN errorChan.buf
                             ELSE Append(errorChan.buf, err),
                     closed |-> TRUE]
    /\ initialized' = initialized
    /\ registered' = FALSE

\* receiveDelta returns: err goes to con.errorChan unless it is empty, and
\* the deferred calls run, closeConnection where it was deferred and the
\* closing of the three channels.
receiveReturns(err) ==
    /\ receive' = [receive EXCEPT !.pc = "done", !.firstRequest = FALSE,
                                  !.frame = NoFrame]
    /\ deltaReqChan' = [deltaReqChan EXCEPT !.closed = TRUE]
    /\ errorChan' = [buf |-> IF err = "" THEN errorChan.buf
                             ELSE Append(errorChan.buf, err),
                     closed |-> TRUE]
    /\ initialized' = TRUE
    /\ registered' = FALSE

\* Mutant: the deferred function closes con.initialized without the test.
closeInitialized_Always(isClosed) == 1

\* select { case <-con.initialized: default: close(con.initialized) }: the
\* number of times it closes the channel.
closeInitialized(isClosed) == IF isClosed THEN 0 ELSE 1

\* The record lg of the stream after receiveDelta has returned with err:
\* the write of err to con.errorChan, and the three channels closed by the
\* deferred function.
returned(lg, err) ==
    [lg EXCEPT !.errWrites = IF err = "" THEN @ ELSE @ + 1,
               !.errBlocked = @ \/ (err # "" /\ (errorChan.closed
                                       \/ Len(errorChan.buf) >= ErrorChanCap)),
               !.closes = [deltaReqChan |-> @.deltaReqChan + 1,
                           errorChan |-> @.errorChan + 1,
                           initialized |-> @.initialized
                                             + closeInitialized(initialized)]]

\* Mutant: a first frame counts as carrying the node whatever it carries.
hasNode_Always(frame) == TRUE

\* req.Node == nil || req.Node.Id == "", negated.
hasNode(frame) == frame.node

\* con.deltaStream.Recv() returns a frame: the first one is checked for its
\* node and starts initConnection, which may fail before it registers the
\* connection; a later one goes on to con.deltaReqChan.
RecvFrame ==
    /\ receive.pc = "recv"
    /\ status \in {"waiting", "active"}
    /\ receive.n < MaxFrames
    /\ \E frame \in Frames(receive.firstRequest, receive.n + 1), early \in BOOLEAN :
          LET held == [pc |-> "send", firstRequest |-> FALSE, frame |-> frame,
                       n |-> receive.n + 1]
          IN  IF ~receive.firstRequest
              THEN /\ ~early
                   /\ receive' = held
                   /\ UNCHANGED <<deltaReqChan, errorChan, initialized, registered, log>>
              ELSE IF ~hasNode(frame)
              THEN /\ ~early
                   /\ receiveReturns(MissingNode)
                   /\ log' = returned([log EXCEPT !.nodeless = ~frame.node],
                                      MissingNode)
              ELSE IF early
              THEN /\ receiveReturns("init error")
                   /\ log' = returned([log EXCEPT !.initRun = TRUE,
                                                  !.nodeless = ~frame.node],
                                      "init error")
              ELSE /\ receive' = [held EXCEPT !.pc = "init"]
                   /\ registered' = TRUE
                   /\ log' = [log EXCEPT !.initRun = TRUE, !.nodeless = ~frame.node]
                   /\ UNCHANGED <<deltaReqChan, errorChan, initialized>>
    /\ last' = Step("receive")
    /\ UNCHANGED <<status, retErr, stop, pushChannel>>
    /\ UNCHANGED tableVars

\* con.deltaStream.Recv() returns an error, an expected one once the stream
\* has returned.
RecvError ==
    /\ receive.pc = "recv"
    /\ status # "new"
    /\ \E expected \in (IF status = "closed" THEN {TRUE} ELSE BOOLEAN) :
          LET err == IF expected THEN "" ELSE "recv error"
          IN  receiveReturns(err) /\ log' = returned(log, err)
    /\ last' = Step("recverr")
    /\ UNCHANGED <<status, retErr, stop, pushChannel>>
    /\ UNCHANGED tableVars

\* initConnection after addCon: initializeProxy succeeds and con.initialized
\* is closed, or it fails and the connection is closed.
InitConnection ==
    /\ receive.pc = "init"
    /\ \E ok \in BOOLEAN :
          IF ok
          THEN /\ receive' = [receive EXCEPT !.pc = "send"]
               /\ initialized' = TRUE
               /\ log' = [log EXCEPT !.initOk = TRUE,
                                     !.closes.initialized = @ + 1]
               /\ UNCHANGED <<deltaReqChan, errorChan, registered>>
          ELSE receiveReturns("init error") /\ log' = returned(log, "init error")
    /\ last' = Step("init")
    /\ UNCHANGED <<status, retErr, stop, pushChannel>>
    /\ UNCHANGED tableVars

\* case con.deltaReqChan <- req
SendRequest ==
    /\ receive.pc = "send"
    /\ Len(deltaReqChan.buf) < DeltaReqChanCap
    /\ deltaReqChan' = [deltaReqChan EXCEPT
                           !.buf = Append(@, [id |-> receive.frame.id,
                                              req |-> receive.frame.req])]
    /\ receive' = [receive EXCEPT !.pc = "recv", !.frame = NoFrame]
    /\ last' = Step("send")
    /\ UNCHANGED <<status, retErr, errorChan, initialized, stop, pushChannel,
                   registered, log>>
    /\ UNCHANGED tableVars

\* con.deltaStream.Recv() returns the error of a cancelled context.
RecvCancelled == status = "closed" /\ RecvError

\* case <-con.deltaStream.Context().Done(): the stream has returned.
SendCancelled ==
    /\ receive.pc = "send"
    /\ status = "closed"
    /\ receiveReturns("")
    /\ log' = returned(log, "")
    /\ last' = Step("cancelled")
    /\ UNCHANGED <<status, retErr, stop, pushChannel>>
    /\ UNCHANGED tableVars

\* The Discovery Server offers a push event to a registered connection; the
\* sender waits in line at con.pushChannel.
OfferPush ==
    /\ registered
    /\ status \in {"waiting", "active"}
    /\ log.offered < MaxEvents
    /\ \E pushRequest \in EventRequests(globalPush) :
          pushChannel' = Append(pushChannel, [id |-> log.offered + 1,
                                              pushRequest |-> pushRequest])
    /\ log' = [log EXCEPT !.offered = @ + 1,
                          !.early = IF status = "waiting"
                                    THEN @ \cup {log.offered + 1} ELSE @]
    /\ last' = Step("offer")
    /\ UNCHANGED <<status, retErr, receive, deltaReqChan, errorChan, initialized,
                   stop, registered>>
    /\ UNCHANGED tableVars

\* Connection.Stop
Stop ==
    /\ registered
    /\ status \in {"waiting", "active"}
    /\ ~stop
    /\ stop' = TRUE
    /\ last' = Step("stop")
    /\ UNCHANGED <<status, retErr, receive, deltaReqChan, errorChan, initialized,
                   pushChannel, registered, log>>
    /\ UNCHANGED tableVars

\* A stream before StreamDeltas is called on it.
InitStream ==
    /\ receive = [Receiving(TRUE, 0) EXCEPT !.pc = "unborn"]
    /\ deltaReqChan = NewChan
    /\ errorChan = NewChan
    /\ initialized = FALSE
    /\ stop = FALSE
    /\ pushChannel = <<>>
    /\ registered = FALSE
    /\ log = NoLog
    /\ WatchedResources = EmptyMap
    /\ blockedPushes = EmptyMap
    /\ globalPush = 1
    /\ nonceCtr = 0
    /\ now = FlowControlTimeout + 1
    /\ EnableFlowControl \in BOOLEAN
    /\ status = "new"
    /\ retErr = ""
    /\ last = Last("none", NoReq, NoPushRequest, "", FALSE, EmptyMap)

\* The main actor, the receiveDelta goroutine and the Discovery Server.
NextStream ==
    \/ StreamDeltasStart
    \/ MainInitialized
    \/ MainRequest
    \/ MainClosed
    \/ MainPush
    \/ MainStop
    \/ RecvFrame
    \/ RecvError
    \/ InitConnection
    \/ SendRequest
    \/ SendCancelled
    \/ OfferPush
    \/ Stop

SpecStream == InitStream /\ [][NextStream]_vars

\* The scheduling of the stream: a goroutine that can step does step, and
\* the select of the main actor, which chooses at random among its ready
\* cases, does not pass over a push event for ever.
FairSpecStream ==
    /\ SpecStream
    /\ WF_vars(StreamDeltasStart)
    /\ WF_vars(InitConnection)
    /\ WF_vars(MainInitialized)
    /\ WF_vars(MainPush)

\* The scheduling of the stream where termination is concerned: a goroutine
\* that can step does step, the select of the main actor does not pass over
\* a ready case for ever, and the context of the stream is cancelled once
\* StreamDeltas has returned, which ends Recv and the send to
\* con.deltaReqChan.  Flow control, which bears on what a push sends and
\* not on who runs, is disabled.
InitActors == InitStream /\ ~EnableFlowControl

SpecActors == InitActors /\ [][NextStream]_vars

FairSpecActors ==
    /\ SpecActors
    /\ WF_vars(StreamDeltasStart)
    /\ WF_vars(InitConnection)
    /\ WF_vars(MainInitialized)
    /\ WF_vars(MainRequest)
    /\ WF_vars(MainClosed)
    /\ WF_vars(MainStop)
    /\ WF_vars(RecvCancelled)
    /\ WF_vars(SendCancelled)

(***************************************************************************)
(* The main actor with the classification of a request in two steps: the   *)
(* read of the previous info of the type under the read lock, and the      *)
(* update under the lock, with what follows it.                            *)
(***************************************************************************)
\* Mutant: a handler starts wherever the main actor is.
atSelect_Anywhere == status = "active"

\* The main actor is at the select of its loop: the handlers are called from
\* the cases of the select and return to it.
atSelect == status = "active" /\ log.inHand = <<>>

\* The watched resource of type t in table wrs, as a sequence: empty when
\* there is none.
previousInfoOf(wrs, t) == IF t \in DOMAIN wrs THEN <<wrs[t]>> ELSE <<>>

\* The request case of the select up to the read of the previous info in
\* shouldRespondDelta; a request with error detail returns before the read.
ClassifyRead ==
    /\ atSelect
    /\ \E req \in OneTypeRequests :
          log' = [log EXCEPT
                     !.inHand = <<req>>,
                     !.previousInfo = IF req.ErrorDetail THEN <<>>
                                      ELSE previousInfoOf(WatchedResources,
                                                          req.TypeUrl)]
    /\ last' = Step("read")
    /\ UNCHANGED tableVars
    /\ UNCHANGED <<status, retErr, receive, deltaReqChan, errorChan, initialized,
                   stop, pushChannel, registered>>

\* The rest of the request case: the update of the table and the push.
ClassifyUpdate ==
    /\ log.inHand # <<>>
    /\ LET req == log.inHand[1]
       IN  \E env \in (IF pushTried(req) THEN Envs ELSE {NoEnv}) :
               processDeltaRequest(req, env)
    /\ log' = [log EXCEPT !.inHand = <<>>, !.previousInfo = <<>>]
    /\ UNCHANGED <<receive, deltaReqChan, errorChan, initialized, stop,
                   pushChannel, registered>>

\* The push case of the select.
SelectPush == atSelect /\ PushConnectionDelta

NextSteps ==
    \/ ClassifyRead
    \/ ClassifyUpdate
    \/ SelectPush

SpecSteps == Init /\ [][NextSteps]_vars

(***************************************************************************)
(* The select loop of a connection in service whose client uses both       *)
(* resource types: requests are processed, push events are offered to the  *)
(* connection and taken from con.pushChannel.                              *)
(***************************************************************************)
NextEvents ==
    \/ ProcessFlowRequest
    \/ OfferPush
    \/ MainPush

SpecEvents == Init /\ [][NextEvents]_vars

(***************************************************************************)
(* What the claims speak of.                                               *)
(***************************************************************************)
\* The stored name set of type t in table wrs (empty when there is no entry).
StoredNames(wrs, t) ==
    IF t \in DOMAIN wrs THEN Range(wrs[t].ResourceNames) ELSE {}

\* The name set after merging the lists of request r into the set S.
Merged(S, r) ==
    (S \cup Range(r.ResourceNamesSubscribe)) \ Range(r.ResourceNamesUnsubscribe)

\* In the handler recorded by l: pushDeltaXds ran for type t (or t was deferred).
Handled(l, t) == t \in DOMAIN l.results

\* ... a push was attempted for type t.
Attempted(l, t) == Handled(l, t) /\ l.results[t].result # "deferred"

\* ... a response frame was built for type t.
Built(l, t) == Attempted(l, t) /\ l.results[t].result \in {"sent", "senderr"}

\* ... a response frame was sent for type t.
SentFrame(l, t) == Attempted(l, t) /\ l.results[t].result = "sent"

\* ... the push of type t overwrote the stored names with the generated ones
\* (a wildcard type pushed without an explicit subscribe list).
Overwrote(l, t) ==
    /\ Built(l, t)
    /\ isWildcardTypeURL(t)
    /\ l.req.ResourceNamesSubscribe = <<>>

\* A request that shouldRespondDelta merges into the table wrs: no error
\* detail, and the first of its type or a nonce that is empty or the last sent.
Accepted(r, wrs) ==
    /\ ~r.ErrorDetail
    /\ \/ r.TypeUrl \notin DOMAIN wrs
       \/ r.ResponseNonce = EmptyString
       \/ r.ResponseNonce = wrs[r.TypeUrl].NonceSent

\* A request whose nonce is stale for the table wrs.
Stale(r, wrs) ==
    /\ ~r.ErrorDetail
    /\ r.TypeUrl \in DOMAIN wrs
    /\ r.ResponseNonce # EmptyString
    /\ r.ResponseNonce # wrs[r.TypeUrl].NonceSent

\* The step is the processing of one request.
RequestStep == last'.kind = "request"

(***************************************************************************)
(* C1.                                                                     *)
(***************************************************************************)
\* C1 (as stated): after every request on a type, the stored name set of the
\* type is the previous set, united with the subscribe list, minus the
\* unsubscribe list; so that over any sequence of requests it is the set
\* obtained from the empty set by applying every request in order.
C1_EveryRequestApplied ==
    [][RequestStep =>
         LET r == last'.req
             t == r.TypeUrl
         IN  StoredNames(WatchedResources', t)
                 = Merged(StoredNames(WatchedResources, t), r)]_vars

\* C1 (amended): for a non-wildcard type the stored name set changes only
\* when a request for the type is accepted (no error detail; first request of
\* the type, or nonce empty or equal to the last nonce sent), and then it
\* becomes the previous set united with the subscribe list minus the
\* unsubscribe list; NACKs, stale-nonce requests and push events leave it
\* alone, and the stored list is sorted.
C1_AcceptedRequestsApplied ==
    [][\A t \in Types :
          ~isWildcardTypeURL(t) =>
             /\ StoredNames(WatchedResources', t)
                  = IF RequestStep /\ last'.req.TypeUrl = t
                       /\ Accepted(last'.req, WatchedResources)
                    THEN Merged(StoredNames(WatchedResources, t), last'.req)
                    ELSE StoredNames(WatchedResources, t)
             /\ t \in DOMAIN WatchedResources' =>
                  WatchedResources'[t].ResourceNames
                      = SortedList(StoredNames(WatchedResources', t))]_vars

\* C1 witness: an accepted request has unsubscribed a1 from {a1, a2}.
C1_Witness ==
    /\ last.kind = "request"
    /\ last.rule = "ack"
    /\ last.req.TypeUrl = "EDS"
    /\ last.req.ResourceNamesUnsubscribe = <<"a1">>
    /\ last.req.ResourceNamesSubscribe = <<>>
    /\ WatchedResources["EDS"].ResourceNames = <<"a2">>

(***************************************************************************)
(* C2.                                                                     *)
(***************************************************************************)
\* C2 (as stated): processing a request sends a response frame for its type
\* if and only if it is the first request for the type, or its nonce equals
\* the last nonce sent and the stored name set differs afterwards.
C2_SentIffFirstOrChangedAck ==
    [][RequestStep =>
         LET r == last'.req
             t == r.TypeUrl
             first == t \notin DOMAIN WatchedResources
             changedAck ==
                 /\ ~first
                 /\ r.ResponseNonce = WatchedResources[t].NonceSent
                 /\ StoredNames(WatchedResources', t)
                        # StoredNames(WatchedResources, t)
         IN  SentFrame(last', t) <=> (first \/ changedAck)]_vars

\* C2 (amended): processing a request runs the push path for its type if and
\* only if (a) the request has no error detail and is the first for the
\* type, or (b) it has no error detail, its nonce is empty or equals the last
\* nonce sent, and merging its lists changes the name set, or (c) a blocked
\* push is queued for the type; a frame is sent only out of that push path,
\* and otherwise nothing is sent, no nonce is minted and no other type is
\* touched.
C2_PushIffOwedOrQueued ==
    [][RequestStep =>
         LET r == last'.req
             t == r.TypeUrl
             prev == StoredNames(WatchedResources, t)
             owed == /\ Accepted(r, WatchedResources)
                     /\ \/ t \notin DOMAIN WatchedResources
                        \/ Merged(prev, r) # prev
             queued == t \in DOMAIN blockedPushes
         IN  /\ Attempted(last', t) <=> (owed \/ queued)
             /\ last'.respond <=> owed
             /\ SentFrame(last', t) =>
                    /\ nonceCtr' = nonceCtr + 1
                    /\ WatchedResources'[t].NonceSent = nonceCtr'
             /\ ~(owed \/ queued) => nonceCtr' = nonceCtr
             /\ \A u \in Types \ {t} :
                    /\ ~Handled(last', u)
                    /\ StoredNames(WatchedResources', u) = StoredNames(WatchedResources, u)
                    /\ (u \in DOMAIN WatchedResources') = (u \in DOMAIN WatchedResources)]_vars

\* C2 witness: an ACK that changed nothing delivered the queued push.
C2_Witness ==
    /\ last.kind = "request"
    /\ last.rule = "ack"
    /\ ~last.respond
    /\ SentFrame(last, last.req.TypeUrl)

(***************************************************************************)
(* C3.                                                                     *)
(***************************************************************************)
\* C3: a request without error detail for a watched type whose nonce is
\* non-empty and not the last nonce sent sends no frame, leaves the name
\* set, NonceSent and NonceAcked alone and clears NonceNacked.
C3_StaleNonceRejected ==
    [][(RequestStep /\ Stale(last'.req, WatchedResources)) =>
         LET t == last'.req.TypeUrl
             w == WatchedResources[t]
             w2 == WatchedResources'[t]
         IN  /\ ~SentFrame(last', t)
             /\ w2.ResourceNames = w.ResourceNames
             /\ w2.NonceSent = w.NonceSent
             /\ w2.NonceAcked = w.NonceAcked
             /\ w2.NonceNacked = EmptyString]_vars

(***************************************************************************)
(* C4.                                                                     *)
(***************************************************************************)
\* C4 (as stated): for a watched type, a request whose nonce differs from the
\* last nonce sent (an empty nonce included) is not treated as an ACK: its
\* lists are not merged and NonceAcked is not updated.
C4_AckOnlyOnEqualNonce ==
    [][(RequestStep /\ last'.req.TypeUrl \in DOMAIN WatchedResources
          /\ last'.req.ResponseNonce
                # WatchedResources[last'.req.TypeUrl].NonceSent) =>
         LET t == last'.req.TypeUrl
         IN  /\ last'.rule # "ack"
             /\ WatchedResources'[t].NonceAcked = WatchedResources[t].NonceAcked
             /\ ~Overwrote(last', t) =>
                  WatchedResources'[t].ResourceNames
                      = WatchedResources[t].ResourceNames]_vars

\* C4 (amended): for a watched type, a request is treated as an ACK (lists
\* merged, NonceAcked set to its nonce) exactly when it has no error detail
\* and its nonce is empty or equals the last nonce sent; a non-empty nonce
\* that differs is ignored: NonceAcked and the name set stay as they were
\* (a wildcard push of a queued request aside).
C4_AckOnEmptyOrEqualNonce ==
    [][(RequestStep /\ last'.req.TypeUrl \in DOMAIN WatchedResources) =>
         LET r == last'.req
             t == r.TypeUrl
             w == WatchedResources[t]
             w2 == WatchedResources'[t]
             ok == ~r.ErrorDetail
                   /\ r.ResponseNonce \in {EmptyString, w.NonceSent}
         IN  /\ (last'.rule = "ack") <=> ok
             /\ ok => /\ w2.NonceAcked = r.ResponseNonce
                      /\ ~Overwrote(last', t) =>
                           Range(w2.ResourceNames) = Merged(Range(w.ResourceNames), r)
             /\ ~ok => /\ w2.NonceAcked = w.NonceAcked
                       /\ ~Overwrote(last', t) =>
                            w2.ResourceNames = w.ResourceNames]_vars

\* C4 witness: a spontaneous request (empty nonce) was merged after a nonce
\* had been sent.
C4_Witness ==
    /\ last.kind = "request"
    /\ last.rule = "ack"
    /\ last.req.ResponseNonce = EmptyString
    /\ last.req.TypeUrl = "EDS"
    /\ last.req.ResourceNamesSubscribe = <<"a2", "a1">>
    /\ WatchedResources["EDS"].ResourceNames = <<"a1", "a2">>
    /\ WatchedResources["EDS"].NonceSent # EmptyString
    /\ ~Attempted(last, "EDS") \/ last.results["EDS"].frame.Nonce # EmptyString

(***************************************************************************)
(* C5.                                                                     *)
(***************************************************************************)
\* C5 (as stated): a nonce that was already accepted as an ACK (NonceAcked
\* holds it) is not accepted as an ACK when it is echoed again.
C5_AcceptedOnce ==
    [][(RequestStep /\ ~last'.req.ErrorDetail
          /\ last'.req.TypeUrl \in DOMAIN WatchedResources
          /\ last'.req.ResponseNonce # EmptyString
          /\ WatchedResources[last'.req.TypeUrl].NonceAcked
                = last'.req.ResponseNonce) =>
         last'.rule # "ack"]_vars

\* C5 (amended): a non-empty nonce echoed in a request without error detail
\* for a watched type is accepted as an ACK (NonceAcked becomes that nonce)
\* whenever it is the last nonce sent for the type, every time it is echoed;
\* it is rejected, NonceAcked unchanged, whenever it is not the last nonce
\* sent.
C5_AcceptedWhileLastSent ==
    [][(RequestStep /\ ~last'.req.ErrorDetail
          /\ last'.req.TypeUrl \in DOMAIN WatchedResources
          /\ last'.req.ResponseNonce # EmptyString) =>
         LET r == last'.req
             t == r.TypeUrl
             w == WatchedResources[t]
             w2 == WatchedResources'[t]
         IN  IF r.ResponseNonce = w.NonceSent
             THEN last'.rule = "ack" /\ w2.NonceAcked = r.ResponseNonce
             ELSE last'.rule = "stale" /\ w2.NonceAcked = w.NonceAcked]_vars

\* C5 witness: the last nonce sent was echoed and accepted with no change of
\* names, so that it is still the last nonce sent and acknowledged.
C5_Witness ==
    /\ last.kind = "request"
    /\ last.rule = "ack"
    /\ last.req.ResponseNonce # EmptyString
    /\ ~Handled(last, last.req.TypeUrl)
    /\ WatchedResources[last.req.TypeUrl].NonceAcked = last.req.ResponseNonce
    /\ WatchedResources[last.req.TypeUrl].NonceSent = last.req.ResponseNonce

(***************************************************************************)
(* C6.                                                                     *)
(***************************************************************************)
\* C6: a request with error detail records its nonce as NonceNacked of the
\* watched type, leaves the name set, NonceSent and NonceAcked alone and
\* sends no frame.
C6_NackIgnored ==
    [][(RequestStep /\ last'.req.ErrorDetail) =>
         LET r == last'.req
             t == r.TypeUrl
         IN  /\ ~SentFrame(last', t)
             /\ (t \in DOMAIN WatchedResources') = (t \in DOMAIN WatchedResources)
             /\ t \in DOMAIN WatchedResources =>
                  /\ WatchedResources'[t].NonceNacked = r.ResponseNonce
                  /\ WatchedResources'[t].ResourceNames
                        = WatchedResources[t].ResourceNames
                  /\ WatchedResources'[t].NonceSent = WatchedResources[t].NonceSent
                  /\ WatchedResources'[t].NonceAcked
                        = WatchedResources[t].NonceAcked]_vars

(***************************************************************************)
(* C7.                                                                     *)
(***************************************************************************)
\* C7: a request without error detail for a type with no watched resource is
\* a first-time subscription whatever its nonce: the entry is created with
\* the names (subscribe list minus unsubscribe list), sorted, and a full push
\* built from the current global push context is attempted for the type (the
\* push of a wildcard type without subscribe list then stores the generated
\* names instead).
C7_FirstRequest ==
    [][(RequestStep /\ ~last'.req.ErrorDetail
          /\ last'.req.TypeUrl \notin DOMAIN WatchedResources) =>
         LET r == last'.req
             t == r.TypeUrl
         IN  /\ last'.rule = "init"
             /\ last'.respond
             /\ t \in DOMAIN WatchedResources'
             /\ WatchedResources'[t].ResourceNames
                  = IF Overwrote(last', t)
                    THEN last'.results[t].frame.Resources
                    ELSE SortedList(Range(r.ResourceNamesSubscribe)
                                       \ Range(r.ResourceNamesUnsubscribe))
             /\ WatchedResources'[t].NonceAcked = EmptyString
             /\ WatchedResources'[t].NonceNacked = EmptyString
             /\ Attempted(last', t)
             /\ last'.results[t].req = PushRequest(TRUE, globalPush, {ProxyRequest})
             /\ Built(last', t) =>
                  last'.results[t].frame.SystemVersionInfo = globalPush]_vars

\* C7 witness: a first request carrying a nonce was answered.
C7_Witness ==
    /\ last.kind = "request"
    /\ last.rule = "init"
    /\ last.req.ResponseNonce # EmptyString
    /\ last.req.ResourceNamesSubscribe = <<"a2", "a1">>
    /\ last.req.ResourceNamesUnsubscribe = <<"a1">>
    /\ WatchedResources[last.req.TypeUrl].ResourceNames = <<"a2">>
    /\ SentFrame(last, last.req.TypeUrl)

(***************************************************************************)
(* C8.                                                                     *)
(***************************************************************************)
\* C8: a request without error detail for a watched type whose nonce equals
\* the last nonce sent sets NonceAcked to that nonce and clears NonceNacked;
\* a response is owed exactly when merging its lists changes the name set,
\* as sets; when it does not and no blocked push is queued, nothing happens
\* besides: no push, no nonce, no error.
C8_GenuineAck ==
    [][(RequestStep /\ ~last'.req.ErrorDetail
          /\ last'.req.TypeUrl \in DOMAIN WatchedResources
          /\ last'.req.ResponseNonce
                = WatchedResources[last'.req.TypeUrl].NonceSent) =>
         LET r == last'.req
             t == r.TypeUrl
             prev == StoredNames(WatchedResources, t)
         IN  /\ WatchedResources'[t].NonceAcked = r.ResponseNonce
             /\ WatchedResources'[t].NonceNacked = EmptyString
             /\ last'.respond <=> (Merged(prev, r) # prev)
             /\ (~last'.respond /\ t \notin DOMAIN blockedPushes) =>
                  /\ ~Handled(last', t)
                  /\ nonceCtr' = nonceCtr
                  /\ status' = "active"
                  /\ WatchedResources'[t].NonceSent = WatchedResources[t].NonceSent
                  /\ StoredNames(WatchedResources', t) = prev]_vars

\* C8 witness: an ACK of the last nonce sent that changed no name found no
\* blocked push and was met with silence.
C8_Witness ==
    /\ last.kind = "request"
    /\ last.rule = "ack"
    /\ last.req.ResponseNonce # EmptyString
    /\ last.req.ResourceNamesSubscribe = <<"a2", "a1">>
    /\ ~last.respond
    /\ ~Handled(last, last.req.TypeUrl)
    /\ WatchedResources[last.req.TypeUrl].NonceAcked
          = WatchedResources[last.req.TypeUrl].NonceSent
    /\ EnableFlowControl

(***************************************************************************)
(* C9.                                                                     *)
(***************************************************************************)
\* C9 (as stated): when a request is owed a response and a blocked push is
\* queued for its type, the push request used is the queued one.
C9_QueuedPushUsed ==
    [][(RequestStep /\ last'.respond
          /\ last'.req.TypeUrl \in DOMAIN blockedPushes) =>
         LET t == last'.req.TypeUrl
         IN  last'.results[t].req
                = [blockedPushes[t] EXCEPT !.Reason = @ \cup {ProxyRequest}]]_vars

\* C9 (amended): when a request is owed a response, the push request used is
\* a brand-new full push built from the current global push context, whether
\* or not a blocked push is queued for the type; the queued push is used
\* only by a request that owes no response of its own.
C9_FreshPushUsed ==
    [][RequestStep =>
         LET t == last'.req.TypeUrl
         IN  /\ last'.respond =>
                  last'.results[t].req
                      = PushRequest(TRUE, globalPush, {ProxyRequest})
             /\ (~last'.respond /\ t \in DOMAIN blockedPushes) =>
                  /\ last'.results[t].req
                        = [blockedPushes[t] EXCEPT !.Reason = @ \cup {ProxyRequest}]
                  /\ t \notin DOMAIN blockedPushes']_vars

\* C9 witness: a request that changed the names was answered with the fresh
\* full push while an incremental push of the type was queued.
C9_Witness ==
    /\ last.kind = "request"
    /\ last.respond
    /\ last.req.TypeUrl \in DOMAIN blockedPushes
    /\ ~blockedPushes[last.req.TypeUrl].Full
    /\ SentFrame(last, last.req.TypeUrl)
    /\ last.results[last.req.TypeUrl].req.Full

(***************************************************************************)
(* C10.                                                                    *)
(***************************************************************************)
\* A push event that the proxy needs.
PushStep == last'.kind = "push"

\* C10 (as stated): with flow control disabled, a push event that the proxy
\* needs attempts a push for every watched type and blocks none.
C10_EveryTypePushed ==
    [][(PushStep /\ ~EnableFlowControl) =>
         /\ \A t \in DOMAIN WatchedResources : Attempted(last', t)
         /\ blockedPushes' = EmptyMap]_vars

\* C10 (amended): with flow control disabled, a push event that the proxy
\* needs attempts a push, with the event's push request, for the watched
\* types in push order, whatever their ACK state, up to and including the
\* first whose push returns an error; that error ends the event and the
\* stream loop.  No entry is ever added to the blocked-push map.
C10_PushedUntilError ==
    [][(PushStep /\ ~EnableFlowControl) =>
         LET wrl == pushDetails(WatchedResources)
         IN  /\ \A i \in 1..Len(wrl) :
                  /\ Attempted(last', wrl[i])
                       <=> \A j \in 1..(i - 1) : ~last'.results[wrl[j]].err
                  /\ Handled(last', wrl[i]) => Attempted(last', wrl[i])
                  /\ Attempted(last', wrl[i]) =>
                       last'.results[wrl[i]].req = last'.ev
             /\ (status' = "closed")
                  <=> \E t \in DOMAIN last'.results : last'.results[t].err
             /\ blockedPushes' = EmptyMap
             /\ blockedPushes = EmptyMap]_vars

\* C10 witness: both types were pushed by one event although neither had
\* acknowledged its last nonce.
C10_Witness ==
    /\ last.kind = "push"
    /\ ~EnableFlowControl
    /\ SentFrame(last, "CDS")
    /\ SentFrame(last, "EDS")
    /\ WatchedResources["CDS"].NonceAcked = EmptyString
    /\ WatchedResources["EDS"].NonceNacked # EmptyString
    /\ blockedPushes = EmptyMap

(***************************************************************************)
(* C11.                                                                    *)
(***************************************************************************)
\* The last nonce sent for type t has been acknowledged.
IsSynced(wrs, t) == wrs[t].NonceAcked = wrs[t].NonceSent

\* The stuck-timeout has elapsed since the last send for type t.
TimedOut(wrs, t, time) == time - wrs[t].LastSent > FlowControlTimeout

\* In the handler recorded by l: the push of type t was deferred.
Deferred(l, t) == Handled(l, t) /\ l.results[t].result = "deferred"

\* What a deferral of the event's push request leaves in the slot of type t.
MergedSlot(blocked, t, ev) ==
    IF t \in DOMAIN blocked
    THEN PushRequest(blocked[t].Full \/ ev.Full, ev.Push,
                     blocked[t].Reason \cup ev.Reason)
    ELSE ev

\* What a push event does to watched type t under flow control: a push now
\* if the type is synced or timed out; otherwise no frame, NonceSent left
\* alone and the event's push request merged into the slot of the type.
FlowRule(t) ==
    IF IsSynced(WatchedResources, t) \/ TimedOut(WatchedResources, t, now)
    THEN /\ Attempted(last', t)
         /\ last'.results[t].req = last'.ev
         /\ (t \in DOMAIN blockedPushes') = (t \in DOMAIN blockedPushes)
         /\ t \in DOMAIN blockedPushes => blockedPushes'[t] = blockedPushes[t]
    ELSE /\ Deferred(last', t)
         /\ ~last'.results[t].err
         /\ WatchedResources'[t] = WatchedResources[t]
         /\ t \in DOMAIN blockedPushes'
         /\ blockedPushes'[t] = MergedSlot(blockedPushes, t, last'.ev)

\* The event ends the stream loop exactly when a push it attempted failed.
FailsOnlyOnPushError ==
    (status' = "closed")
        <=> \E t \in DOMAIN last'.results :
                Attempted(last', t) /\ last'.results[t].err

\* C11 (as stated): with flow control enabled, a push event that the proxy
\* needs pushes each watched type now if and only if the type is synced or
\* its stuck-timeout has elapsed; otherwise nothing is sent for the type, the
\* push request goes to the blocked-push slot of the type, and the
\* connection is not failed.
C11_EachTypePushedOrDeferred ==
    [][(PushStep /\ EnableFlowControl) =>
         /\ \A t \in DOMAIN WatchedResources : FlowRule(t)
         /\ FailsOnlyOnPushError]_vars

\* C11 (amended): with flow control enabled, a push event that the proxy
\* needs goes through the watched types in push order, up to and including
\* the first type whose push returns an error: each type it reaches is
\* pushed now if and only if it is synced or timed out, and is otherwise
\* deferred (no frame, the push request merged into the slot of the type, no
\* failure); the types after a failed push are neither pushed nor deferred.
C11_PushedOrDeferredUntilError ==
    [][(PushStep /\ EnableFlowControl) =>
         LET wrl == pushDetails(WatchedResources)
             reached(i) == \A j \in 1..(i - 1) : ~last'.results[wrl[j]].err
         IN  /\ \A i \in 1..Len(wrl) :
                  IF reached(i)
                  THEN FlowRule(wrl[i])
                  ELSE /\ ~Handled(last', wrl[i])
                       /\ WatchedResources'[wrl[i]] = WatchedResources[wrl[i]]
                       /\ (wrl[i] \in DOMAIN blockedPushes')
                             = (wrl[i] \in DOMAIN blockedPushes)
                       /\ wrl[i] \in DOMAIN blockedPushes =>
                             blockedPushes'[wrl[i]] = blockedPushes[wrl[i]]
             /\ DOMAIN last'.results \subseteq DOMAIN WatchedResources
             /\ FailsOnlyOnPushError]_vars

\* C11 witness: one event pushed the synced type and deferred the other,
\* whose last nonce was not acknowledged, and the stream stayed up.
C11_Witness ==
    /\ last.kind = "push"
    /\ EnableFlowControl
    /\ SentFrame(last, "CDS")
    /\ Deferred(last, "EDS")
    /\ blockedPushes["EDS"] = last.ev
    /\ WatchedResources["EDS"].NonceAcked # WatchedResources["EDS"].NonceSent
    /\ status = "active"

(***************************************************************************)
(* C12.                                                                    *)
(***************************************************************************)
\* The step empties the blocked-push slot of type t: a request of the type
\* that owes no response takes the blocked push out and hands it to the push.
Dequeues(t) ==
    /\ RequestStep
    /\ last'.req.TypeUrl = t
    /\ ~last'.respond
    /\ t \in DOMAIN blockedPushes

\* C12: the blocked pushes are a map with one slot per type.  A slot changes
\* only when a push event defers the type, and then it holds the merge of
\* what it held with the event's push request (full if either is full, the
\* context of the event, which is the latest, the union of the reasons; the
\* request itself when the slot was empty), or when a request empties it;
\* so that the slot always holds the merge of every push request deferred
\* for the type since it was last emptied, none dropped, none twice.
C12_BlockedIsMergeOfDeferred ==
    [][\A t \in Types :
          IF last'.kind = "push" /\ Deferred(last', t)
          THEN /\ t \in DOMAIN blockedPushes'
               /\ blockedPushes'[t] = MergedSlot(blockedPushes, t, last'.ev)
               /\ blockedPushes'[t].Push = globalPush
               /\ last'.ev.Reason \subseteq blockedPushes'[t].Reason
               /\ t \in DOMAIN blockedPushes =>
                    /\ blockedPushes[t].Reason \subseteq blockedPushes'[t].Reason
                    /\ blockedPushes[t].Full => blockedPushes'[t].Full
                    /\ blockedPushes[t].Push <= blockedPushes'[t].Push
          ELSE IF Dequeues(t)
          THEN /\ t \notin DOMAIN blockedPushes'
               /\ Attempted(last', t)
          ELSE /\ (t \in DOMAIN blockedPushes') = (t \in DOMAIN blockedPushes)
               /\ t \in DOMAIN blockedPushes =>
                    blockedPushes'[t] = blockedPushes[t]]_vars

\* C12 witness: a full push of the first configuration and an incremental
\* push of the second were deferred one after the other, and the slot holds
\* their merge.
C12_Witness ==
    /\ last.kind = "push"
    /\ \E t \in DOMAIN blockedPushes :
          /\ Deferred(last, t)
          /\ last.ev = PushRequest(FALSE, 2, {"endpoint"})
          /\ blockedPushes[t] = PushRequest(TRUE, 2, {"config", "endpoint"})

(***************************************************************************)
(* C13.                                                                    *)
(***************************************************************************)
\* C13: when a blocked push is queued for a type and a request without error
\* detail echoes the last nonce sent for the type without changing its name
\* set, the blocked push is taken out of the map and pushed in the same
\* step: the push request handed to the push is the queued, merged one (with
\* the reason of a request-triggered push added), not a fresh full push; the
\* frame it yields carries the current configuration and a new nonce.
C13_AckReleasesBlockedPush ==
    [][(RequestStep /\ ~last'.req.ErrorDetail
          /\ last'.req.TypeUrl \in DOMAIN WatchedResources
          /\ last'.req.TypeUrl \in DOMAIN blockedPushes
          /\ last'.req.ResponseNonce # EmptyString
          /\ last'.req.ResponseNonce
                = WatchedResources[last'.req.TypeUrl].NonceSent
          /\ Merged(StoredNames(WatchedResources, last'.req.TypeUrl), last'.req)
                = StoredNames(WatchedResources, last'.req.TypeUrl)) =>
         LET t == last'.req.TypeUrl
             out == last'.results[t]
         IN  /\ t \notin DOMAIN blockedPushes'
             /\ Attempted(last', t)
             /\ out.req.Full = blockedPushes[t].Full
             /\ out.req.Push = blockedPushes[t].Push
             /\ out.req.Reason = blockedPushes[t].Reason \cup {ProxyRequest}
             /\ Built(last', t) =>
                  /\ out.frame.SystemVersionInfo = globalPush
                  /\ out.frame.Nonce = nonceCtr + 1
             /\ SentFrame(last', t) =>
                  WatchedResources'[t].NonceSent = out.frame.Nonce]_vars

\* C13 witness: the ACK of the outstanding response released a deferred
\* incremental push of the second configuration, and a frame was sent.
C13_Witness ==
    /\ last.kind = "request"
    /\ last.rule = "ack"
    /\ last.req.ResponseNonce # EmptyString
    /\ ~last.respond
    /\ SentFrame(last, last.req.TypeUrl)
    /\ last.results[last.req.TypeUrl].req
          = PushRequest(FALSE, 2, {"endpoint", ProxyRequest})
    /\ last.req.TypeUrl \notin DOMAIN blockedPushes

(***************************************************************************)
(* C14.                                                                    *)
(***************************************************************************)
\* The blocked pushes after push request r was deferred for type t.
AfterDeferral(blocked, t, r) == MapPut(blocked, t, blockedMerge(blocked, t, r))

Stuck(t) ==
    /\ t \in DOMAIN WatchedResources
    /\ ~IsSynced(WatchedResources, t)
    /\ TimedOut(WatchedResources, t, now)

\* The push event forces the push of type t: it pushes the type with the
\* event's push request and leaves the slot of the type alone.
Forced(t) ==
    /\ Attempted(last', t)
    /\ last'.results[t].req = last'.ev
    /\ (t \in DOMAIN blockedPushes') = (t \in DOMAIN blockedPushes)
    /\ t \in DOMAIN blockedPushes => blockedPushes'[t] = blockedPushes[t]

\* C15 (as stated): with flow control enabled, a push event that the proxy
\* needs and that finds a type stuck forces a push of that type instead of
\* deferring it.
C15_StuckTypeForced ==
    [][(PushStep /\ EnableFlowControl) =>
         \A t \in Types : Stuck(t) => Forced(t)]_vars

\* C15 (amended): with flow control enabled, a push event that the proxy
\* needs and that finds a type stuck forces a push of that type instead of
\* deferring it, unless the push of a type before it in push order failed
\* in the same event, which ends the event and the stream loop before the
\* stuck type is reached.
C15_StuckTypeForcedUnlessFailed ==
    [][(PushStep /\ EnableFlowControl) =>
         LET wrl == pushDetails(WatchedResources)
         IN  \A i \in 1..Len(wrl) :
                Stuck(wrl[i]) =>
                   IF \A j \in 1..(i - 1) : ~last'.results[wrl[j]].err
                   THEN Forced(wrl[i])
                   ELSE /\ ~Handled(last', wrl[i])
                        /\ status' = "closed"]_vars

\* C15 witness: the only type of the connection was sent a second frame by
\* a push event although nothing was ever acknowledged for it.
C15_Witness ==
    /\ last.kind = "push"
    /\ EnableFlowControl
    /\ DOMAIN WatchedResources = {"EDS"}
    /\ SentFrame(last, "EDS")
    /\ last.results["EDS"].frame.Nonce = 2
    /\ WatchedResources["EDS"].NonceAcked = EmptyString
    /\ now > (FlowControlTimeout + 1) + FlowControlTimeout

(***************************************************************************)
(* C16.                                                                    *)
(***************************************************************************)
\* Push request p covers push request q: it is full if q is, and its
\* context is not older.
Covers(p, q) == (q.Full => p.Full) /\ q.Push <= p.Push

\* C16: a push event that reaches a watched type either pushes it at once or
\* leaves its push request, merged, in the slot of the type; and what waits
\* in the slot is delivered by the next push of the type: by the push that a
\* request of the client sets off, and by the push that a further push
\* event forces once the stuck-timeout has elapsed.  In both cases, on a
\* connection that stays up, the push request handed to the push covers the
\* one that waited.
C16_DeferredPushDelivered ==
    [][\A t \in DOMAIN blockedPushes :
          /\ (PushStep /\ Deferred(last', t)) =>
                Covers(blockedPushes'[t], blockedPushes[t])
          /\ (RequestStep /\ last'.req.TypeUrl = t /\ Attempted(last', t)
                /\ status' = "active") =>
                Covers(last'.results[t].req, blockedPushes[t])
          /\ (PushStep /\ EnableFlowControl /\ Stuck(t) /\ Attempted(last', t)
                /\ status' = "active") =>
                Covers(last'.results[t].req, blockedPushes[t])]_vars

(***************************************************************************)
(* C17.                                                                    *)
(***************************************************************************)
\* The last nonce sent for type t in table wrs (empty when there is no entry).
NonceSentOf(wrs, t) == IF t \in DOMAIN wrs THEN wrs[t].NonceSent ELSE EmptyString

\* C17 (as stated): a frame for a type that carries the version of the last
\* frame sent for that type is sent only by the processing of a client
\* request that owes a response.
C17_OncePerVersion ==
    [][\A t \in DOMAIN WatchedResources :
          (/\ SentFrame(last', t)
           /\ WatchedResources[t].NonceSent # EmptyString
           /\ last'.results[t].frame.SystemVersionInfo
                 = WatchedResources[t].VersionSent) =>
             (RequestStep /\ last'.req.TypeUrl = t /\ last'.respond)]_vars

\* C17 (amended): frames are not held back by version.  A frame is sent for a
\* type, and the last nonce sent for it changes, only by the processing of a
\* request of that type that owes a response or finds a blocked push queued,
\* or by a push event that the proxy needs and that finds the type synced or
\* timed out (or flow control disabled); each of these sends at most one
\* frame for the type, with a new nonce and the version of the current
\* configuration, whether or not that version was sent before.
C17_OneFramePerTrigger ==
    [][/\ \A t \in Types :
            LET sentNow == NonceSentOf(WatchedResources', t)
                              # NonceSentOf(WatchedResources, t)
            IN  /\ sentNow <=> SentFrame(last', t)
                /\ sentNow =>
                     /\ \/ /\ RequestStep
                           /\ last'.req.TypeUrl = t
                           /\ last'.respond \/ t \in DOMAIN blockedPushes
                        \/ /\ PushStep
                           /\ t \in DOMAIN WatchedResources
                           /\ \/ ~EnableFlowControl
                              \/ IsSynced(WatchedResources, t)
                              \/ TimedOut(WatchedResources, t, now)
                     /\ WatchedResources'[t].NonceSent > nonceCtr
                     /\ WatchedResources'[t].VersionSent = globalPush
                     /\ WatchedResources'[t].LastSent = now
       /\ nonceCtr' - nonceCtr
             = Cardinality({t \in Types : Built(last', t)})]_vars

\* C17 witness: a push event sent the only type of the connection a second
\* frame with the version of the first.
C17_Witness ==
    /\ last.kind = "push"
    /\ \E t \in Types :
          /\ DOMAIN WatchedResources = {t}
          /\ SentFrame(last, t)
          /\ last.results[t].frame.Nonce = 2
          /\ last.results[t].frame.SystemVersionInfo = 1
          /\ WatchedResources[t].NonceAcked = 1

(***************************************************************************)
(* C18                                                                     *)
(***************************************************************************)
\* The stream has returned to the caller of StreamDeltas.
Returns == status = "closed"

\* C18: when the first frame of a stream carries no node identity,
\* initConnection is not run and the connection is never registered, no
\* frame of the stream reaches con.deltaReqChan or the request processor, no
\* push event is delivered and no response is sent, and when StreamDeltas
\* returns it returns the error "missing node information".
C18_MissingNodeRejected ==
    log.nodeless =>
        /\ ~log.initRun
        /\ ~registered
        /\ receive.pc = "done"
        /\ deltaReqChan.buf = <<>>
        /\ log.processed = <<>>
        /\ log.delivered = <<>>
        /\ nonceCtr = 0
        /\ WatchedResources = EmptyMap
        /\ Returns => retErr = MissingNode

\* A stream whose first frame had no node has returned the error.
C18_Witness ==
    /\ log.nodeless
    /\ Returns
    /\ retErr = MissingNode
    /\ errorChan.closed

(***************************************************************************)
(* C19                                                                     *)
(***************************************************************************)
\* Nothing has been processed, delivered or sent.
NothingServed ==
    /\ log.processed = <<>>
    /\ log.delivered = <<>>
    /\ nonceCtr = 0
    /\ WatchedResources = EmptyMap

\* Every push event in line at con.pushChannel keeps its place, or is the
\* first in line and is taken by the main actor in its loop.
KeepsWaiting ==
    \/ pushChannel' = pushChannel
    \/ /\ Len(pushChannel') = Len(pushChannel) + 1
       /\ SubSeq(pushChannel', 1, Len(pushChannel)) = pushChannel
    \/ /\ pushChannel # <<>>
       /\ pushChannel' = Tail(pushChannel)
       /\ log'.delivered = Append(log.delivered, Head(pushChannel).id)
       /\ initialized
       /\ status = "active"

\* C19 as stated, for a connection whose initialization succeeded: a push
\* event offered before the main actor entered its loop is delivered, so
\* the stream never returns with such an event undelivered.
C19_EarlyEventDelivered ==
    (Returns /\ log.initOk) => log.early \subseteq Range(log.delivered)

\* C19, amended: until con.initialized is closed nothing is processed,
\* delivered or sent; a push event offered by then is not dropped, it keeps
\* its place in line until the main actor takes it in its loop, and it is
\* delivered unless the stream returns first.
C19_EarlyEventWaits ==
    /\ [](~initialized => NothingServed)
    /\ [][KeepsWaiting]_vars
    /\ \A id \in 1..MaxEvents :
          (id \in log.early) ~> (id \in Range(log.delivered) \/ Returns)

\* A push event offered during initialization has been delivered by the main
\* actor in its loop.
C19_Witness ==
    /\ log.initOk
    /\ \E id \in log.early : id \in Range(log.delivered)
    /\ last.kind \in {"push", "skip"}

(***************************************************************************)
(* C20                                                                     *)
(***************************************************************************)
\* The first n things to arrive, in the order of their arrival: frames are
\* numbered as Recv returns them, push events as they are offered.
InArrivalOrder(n) == [i \in 1..n |-> i]

\* C20: the requests processed so far are the first frames received from
\* the stream, each once and in the order of their reception, the frames
\* still on their way being the next ones; the push events delivered so far
\* are the first events offered, each once and in the order of the offers.
C20_ProcessedInArrivalOrder ==
    /\ log.processed = InArrivalOrder(Len(log.processed))
    /\ \A i \in 1..Len(deltaReqChan.buf) :
          deltaReqChan.buf[i].id = Len(log.processed) + i
    /\ receive.pc = "send" =>
          receive.frame.id = Len(log.processed) + Len(deltaReqChan.buf) + 1
    /\ log.delivered = InArrivalOrder(Len(log.delivered))
    /\ \A i \in 1..Len(pushChannel) :
          pushChannel[i].id = Len(log.delivered) + i

\* Two requests have been processed and two push events delivered.
C20_Witness ==
    /\ Len(log.processed) = MaxFrames
    /\ Len(log.delivered) = MaxEvents
    /\ MaxFrames > 1
    /\ MaxEvents > 1

(***************************************************************************)
(* C21                                                                     *)
(***************************************************************************)
\* The step is a push event that was not skipped.
PushEventStep == last'.kind = "push"

\* The table pushDeltaXds starts from in the step: the one shouldRespondDelta
\* leaves behind when the step is a request.
TableHanded ==
    IF RequestStep THEN shouldRespondDelta(WatchedResources, last'.req).wrs
    ELSE WatchedResources

\* The names of the watched resource handed to the generator of type t: the
\* subscribe list of the request when it has one, the stored names otherwise.
NamesHanded(t) ==
    IF RequestStep /\ last'.req.ResourceNamesSubscribe # <<>>
    THEN Range(last'.req.ResourceNamesSubscribe)
    ELSE StoredNames(TableHanded, t)

\* The removed list of the frame built for type t in the step.
RemovedOf(t) == last'.results[t].frame.RemovedResources

\* The names of the resources of the frame built for type t in the step.
GeneratedOf(t) == Range(last'.results[t].frame.Resources)

\* C21 as stated: the removed list of a frame is the explicit list of the
\* generator when the generator is delta-capable; otherwise, for a full
\* push, the names subscribed before the push minus the generated ones,
\* sorted; otherwise empty.
C21_RemovedByCapability ==
    [][\A t \in Types :
          Built(last', t) =>
             RemovedOf(t) =
                IF log'.gens[t].gen = "delta" THEN log'.gens[t].deleted
                ELSE IF last'.results[t].req.Full
                THEN SortedList(NamesHanded(t) \ GeneratedOf(t))
                ELSE <<>>]_vars

\* C21, amended: the removed list of a frame is the explicit list of the
\* generator when the generator reports that it used deltas; otherwise, for
\* a full push, the names handed to the generator (the subscribe list of the
\* request when it has one, the stored names otherwise) minus the generated
\* ones, sorted; otherwise empty.
C21_RemovedByUsedDelta ==
    [][\A t \in Types :
          Built(last', t) =>
             RemovedOf(t) =
                IF log'.gens[t].usedDelta THEN log'.gens[t].deleted
                ELSE IF last'.results[t].req.Full
                THEN SortedList(NamesHanded(t) \ GeneratedOf(t))
                ELSE <<>>]_vars

\* A delta-capable generator fell back to a full generation in a full push,
\* and the frame removes a name that was inferred.
C21_Witness ==
    \E t \in Types :
       /\ Built(last, t)
       /\ t \in DOMAIN log.gens
       /\ log.gens[t].gen = "delta"
       /\ ~log.gens[t].usedDelta
       /\ last.results[t].req.Full
       /\ last.results[t].frame.RemovedResources # <<>>

(***************************************************************************)
(* C22                                                                     *)
(***************************************************************************)
\* C22: when a frame is built for a wildcard type by a push without an
\* explicit subscribe list (a push event, or a request whose subscribe list
\* is empty), the stored names of the type are afterwards the names of the
\* resources generated by that push, whether or not the send succeeds.
C22_WildcardNamesAreGenerated ==
    [][\A t \in Types :
          Overwrote(last', t) =>
             /\ t \in DOMAIN WatchedResources'
             /\ WatchedResources'[t].ResourceNames
                    = last'.results[t].frame.Resources]_vars

\* A push event has replaced the stored names of the wildcard type by the
\* two names it generated, in the order of the generator.
C22_Witness ==
    /\ last.kind = "push"
    /\ Overwrote(last, "CDS")
    /\ SentFrame(last, "CDS")
    /\ last.results["CDS"].frame.Resources = <<"a2", "a1">>
    /\ WatchedResources["CDS"].ResourceNames = <<"a2", "a1">>

(***************************************************************************)
(* C23                                                                     *)
(***************************************************************************)
\* The generator of type t was called in the step and returned an error, or
\* neither resources nor removed resources.
NothingToSend(t) ==
    /\ Attempted(last', t)
    /\ t \in DOMAIN log'.gens
    /\ log'.gens[t].gen # "none"
    /\ log'.gens[t].err \/ (log'.gens[t].resNil /\ log'.gens[t].delNil)

\* C23: when the generator returns an error, or neither resources nor
\* removed resources, no frame is built or sent for the type and no nonce is
\* minted, the watched resource of the type is left as the push path found
\* it, one event with the type and the version of the push is registered
\* with the status reporter when there is one and none otherwise, and the
\* handler returns the generator's error, which ends the stream, or nil.
C23_NothingSentOnGeneratorError ==
    [][\A t \in Types :
          NothingToSend(t) =>
             /\ ~Built(last', t)
             /\ last'.results[t].frame = NoResponse
             /\ nonceCtr' = nonceCtr
             /\ WatchedResources' = TableHanded
             /\ log'.events =
                   IF log.statusReporter
                   THEN <<[TypeUrl |-> t, version |-> last'.results[t].req.Push]>>
                   ELSE <<>>
             /\ IF log'.gens[t].err
                THEN status' = "closed" /\ retErr' = "generr"
                ELSE status' = "active" /\ retErr' = ""]_vars

\* The generator failed in a push event of a connection with a status
\* reporter: the event is registered and the stream has returned the error.
C23_Witness ==
    /\ last.kind = "push"
    /\ log.statusReporter
    /\ \E t \in DOMAIN last.results :
          /\ last.results[t].result = "generr"
          /\ log.events = <<[TypeUrl |-> t, version |-> globalPush]>>
          /\ WatchedResources[t].NonceSent # EmptyString
    /\ status = "closed"
    /\ retErr = "generr"

(***************************************************************************)
(* C24                                                                     *)
(***************************************************************************)
\* The send of the frame built for type t failed in the step.
SendFailed(t) == Attempted(last', t) /\ last'.results[t].result = "senderr"

\* The place of type t in the push order.
PushRank(t) == CHOOSE i \in 1..Len(PushOrder) : PushOrder[i] = t

\* C24: when the send of a frame fails, in a request or in a push event,
\* NonceSent, VersionSent and LastSent of the type stay as they were, the
\* frame is not sent again and no later type is pushed, the handler returns
\* the error and StreamDeltas returns it; nothing is handled once it has.
C24_SendFailureIsFatal ==
    [][/\ \A t \in Types :
             SendFailed(t) =>
                /\ last'.kind \in {"request", "push"}
                /\ t \in DOMAIN TableHanded
                /\ WatchedResources'[t].NonceSent = TableHanded[t].NonceSent
                /\ WatchedResources'[t].VersionSent = TableHanded[t].VersionSent
                /\ WatchedResources'[t].LastSent = TableHanded[t].LastSent
                /\ WatchedResources'[t].NonceSent # last'.results[t].frame.Nonce
                /\ \A u \in Types : PushRank(u) > PushRank(t) => ~Handled(last', u)
                /\ nonceCtr' = nonceCtr + Cardinality({u \in Types : Built(last', u)})
                /\ status' = "closed"
                /\ retErr' = "senderr"
       /\ status # "closed"]_vars

\* A push event sent the frame of the first type and failed to send the
\* frame of the second: the stream has returned the error.
C24_Witness ==
    /\ last.kind = "push"
    /\ SentFrame(last, "CDS")
    /\ Built(last, "EDS")
    /\ last.results["EDS"].result = "senderr"
    /\ status = "closed"
    /\ retErr = "senderr"

(***************************************************************************)
(* C25                                                                     *)
(***************************************************************************)
\* The receiveDelta goroutine runs / has returned.
ReceiveRuns == receive.pc \in {"recv", "init", "send"}
ReceiveDone == receive.pc = "done"

\* The main actor runs: StreamDeltas has created the connection and has not
\* returned.
MainRuns == status \in {"waiting", "active"}

\* C25: StreamDeltas starts the receive actor once, when it creates the
\* connection, and an actor that has returned does not run again; once the
\* receive actor has returned the main actor eventually returns, and once
\* the main actor has returned the receive actor eventually returns.
C25_ActorsTerminateTogether ==
    /\ [][/\ (receive.pc = "unborn" /\ receive'.pc # "unborn")
                => (status = "new" /\ status' = "waiting" /\ receive'.pc = "recv")
          /\ receive'.pc = "unborn" => receive.pc = "unborn"
          /\ ReceiveDone => receive'.pc = "done"
          /\ Returns => status' = "closed"
          /\ (MainRuns' /\ ~MainRuns) => (ReceiveRuns' /\ ~ReceiveRuns)]_vars
    /\ [](MainRuns => ~(receive.pc = "unborn"))
    /\ ReceiveDone ~> Returns
    /\ (Returns /\ ReceiveRuns) ~> ReceiveDone

\* Both actors have returned after a request was processed.
C25_Witness ==
    /\ ReceiveDone
    /\ Returns
    /\ log.processed # <<>>

(***************************************************************************)
(* C26                                                                     *)
(***************************************************************************)
\* C26: once con.stop is closed the main actor returns and the receive actor
\* stops running, wherever they were suspended, and once the receive actor
\* has returned on a stream error the main actor returns, also when it was
\* still waiting for con.initialized; the stream's context is cancelled once
\* the stream loop returns, as in C25.
C26_BothActorsCancellable ==
    /\ stop ~> Returns
    /\ stop ~> ~ReceiveRuns
    /\ (stop /\ status = "waiting") ~> (initialized /\ status # "waiting")
    /\ (ReceiveDone /\ status = "waiting") ~> Returns
    /\ [](ReceiveDone => initialized /\ deltaReqChan.closed /\ errorChan.closed)

\* con.stop was closed, the main actor has returned nil without having
\* processed a request, and the receive actor has returned.
C26_Witness ==
    /\ stop
    /\ Returns
    /\ retErr = ""
    /\ ReceiveDone
    /\ log.processed = <<>>

(***************************************************************************)
(* C27: the lock of con.proxy and the slow operations.                     *)
(***************************************************************************)

\* The lock is held before the i-th operation of the last handler.
LockHeldBefore(i) ==
    \E j \in 1..(i - 1) :
        /\ log.ops[j] \in {"Lock", "RLock"}
        /\ \A k \in (j + 1)..(i - 1) : log.ops[k] \notin {"Unlock", "RUnlock"}

\* C27: whatever a handler of the request path, the push path or the send
\* path does, the lock of the connection is held only around reads and
\* writes of the table: a generator is invoked and a frame is sent only with
\* the lock released, the lock is never taken while it is held, every write of
\* the table is under the lock, and the handler ends with the lock released.
C27_LockOnlyAroundTable ==
    /\ \A i \in 1..Len(log.ops) :
          IF LockHeldBefore(i)
          THEN log.ops[i] \in {"read", "write", "Unlock", "RUnlock"}
          ELSE log.ops[i] \in {"Lock", "RLock", "generate", "send", "read"}
    /\ ~LockHeldBefore(Len(log.ops) + 1)

\* A push event with flow control enabled took the lock to test Synced, ran
\* the generator, sent the frame and took the lock again to record it.
C27_Witness ==
    /\ EnableFlowControl
    /\ last.kind = "push"
    /\ \E i, j, k \in 1..Len(log.ops) :
          /\ i < j /\ j < k
          /\ log.ops[i] = "generate"
          /\ log.ops[j] = "send"
          /\ log.ops[k] = "Lock"

(***************************************************************************)
(* C28: protocol anomalies.                                                *)
(***************************************************************************)

\* Request r is an ACK for table wrs on which the two tests disagree: the
\* name set is unchanged and the nonce is empty, or the name set changes and
\* the nonce is not empty.
Disagrees(r, wrs) ==
    /\ r.TypeUrl \in DOMAIN wrs
    /\ Accepted(r, wrs)
    /\ (Merged(StoredNames(wrs, r.TypeUrl), r) = StoredNames(wrs, r.TypeUrl))
           # (r.ResponseNonce # EmptyString)

\* The handler recorded by l returned the error of a push it ran.
PushFailed(l) == \E t \in DOMAIN l.results : l.results[t].err

\* C28: with unsafe assertions disabled, a request classified as a NACK, as a
\* stale-nonce request or as an ACK on which "the name set is unchanged"
\* disagrees with "the nonce is not empty" is never fatal: the classification
\* does not panic and returns only its decision, so the connection ends in
\* the handler only when a push the handler went on to run failed.  A NACK
\* and a stale nonce are not responded to; in the disagreement case the
\* decision is exactly "the name set changed".
C28_AnomaliesNeverFatal ==
    [][LET r == last'.req
           S == StoredNames(WatchedResources, r.TypeUrl)
       IN  (RequestStep /\ ~EnableUnsafeAssertions
              /\ (r.ErrorDetail \/ Stale(r, WatchedResources)
                    \/ Disagrees(r, WatchedResources)))
           => /\ retErr' # "panic"
              /\ status' = "closed" => PushFailed(last')
              /\ retErr' # "" => PushFailed(last')
              /\ (r.ErrorDetail \/ Stale(r, WatchedResources)) => ~last'.respond
              /\ Disagrees(r, WatchedResources)
                    => (last'.respond <=> Merged(S, r) # S)]_vars

\* A request with the last nonce sent changed the name set: the tests
\* disagreed, the request was responded to and the connection goes on.
C28_Witness ==
    /\ last.kind = "request"
    /\ last.rule = "ack"
    /\ last.req.ResponseNonce # EmptyString
    /\ last.respond
    /\ status = "active"

(***************************************************************************)
(* C29: what releases a blocked push.                                      *)
(***************************************************************************)

\* C29: a request takes the blocked push of its type out of the map, to
\* push it, only when the request is the relevant ACK (no error
\* detail, nonce equal to the last nonce sent for the type); a NACK or a
\* stale-nonce request for a type with a blocked push leaves the map of
\* blocked pushes as it was and runs no push.
C29_BlockedPushWaitsForAck ==
    [][RequestStep =>
         LET r == last'.req
             t == r.TypeUrl
         IN  t \in DOMAIN blockedPushes =>
               /\ t \notin DOMAIN blockedPushes'
                     => /\ ~r.ErrorDetail
                        /\ t \in DOMAIN WatchedResources
                        /\ r.ResponseNonce = WatchedResources[t].NonceSent
               /\ (r.ErrorDetail \/ Stale(r, WatchedResources))
                     => /\ blockedPushes' = blockedPushes
                        /\ ~Handled(last', t)]_vars

(***************************************************************************)
(* C30: the nonce and the version sent.                                    *)
(***************************************************************************)

\* NonceSent and VersionSent of type t in table wrs, empty without an entry.
SentOf(wrs, t) ==
    IF t \in DOMAIN wrs
    THEN <<wrs[t].NonceSent, wrs[t].VersionSent>>
    ELSE <<EmptyString, EmptyString>>

\* C30: NonceSent and VersionSent of a type are the nonce and the version of
\* the most recent frame sent successfully for the type on the connection,
\* and empty if there was none: they are empty at the start, a handler that
\* sends a frame for the type sets them to the nonce and the version of the
\* frame, whose nonce is not empty, and every other step (a failed send, a
\* generator that returns nothing, a deferral, a request that sends nothing)
\* leaves them as they were.  The successful send creates the entry of the
\* type if it is missing.
C30_SentIsLastFrameSent ==
    /\ \A t \in Types : SentOf(WatchedResources, t) = <<EmptyString, EmptyString>>
    /\ [][\A t \in Types :
            IF SentFrame(last', t)
            THEN LET f == last'.results[t].frame
                     created == sendDelta(MapDelete(WatchedResources, t), f, TRUE, now)
                 IN  /\ f.Nonce # EmptyString
                     /\ SentOf(WatchedResources', t) = <<f.Nonce, f.SystemVersionInfo>>
                     /\ SentOf(created, t) = <<f.Nonce, f.SystemVersionInfo>>
            ELSE SentOf(WatchedResources', t) = SentOf(WatchedResources, t)]_vars

\* A push event sent the second frame of the connection, and the nonce and
\* the version sent of its type are those of that frame.
C30_Witness ==
    \E t \in Types :
        /\ last.kind = "push"
        /\ SentFrame(last, t)
        /\ nonceCtr = 2
        /\ SentOf(WatchedResources, t)
              = <<last.results[t].frame.Nonce, last.results[t].frame.SystemVersionInfo>>

(***************************************************************************)
(* C31: the done callback of a push event.                                 *)
(***************************************************************************)

\* The step takes a push event from con.pushChannel.
TakesEvent == log'.delivered # log.delivered

\* C31: the done callback of every push event the main actor takes is
\* invoked exactly once, after pushConnectionDelta has returned and before
\* the loop goes back to the select or StreamDeltas returns, whether the push
\* failed or not; nothing else invokes a done callback.
C31_DoneOncePerEvent ==
    [][IF TakesEvent
       THEN LET c == log'.pushCase
                id == log'.delivered[Len(log'.delivered)]
            IN  /\ log'.done = Append(log.done, id)
                /\ Len(c) = 3
                /\ c[1] = "pushConnectionDelta"
                /\ c[2] = "done"
                /\ c[3] = (IF retErr' = "" THEN "select" ELSE "return")
                /\ status' = (IF retErr' = "" THEN "active" ELSE "closed")
       ELSE log'.done = log.done]_vars

\* The push of the second event taken failed, and the callbacks of both
\* events have been invoked.
C31_Witness ==
    /\ last.kind = "push"
    /\ retErr # ""
    /\ log.delivered = <<1, 2>>
    /\ log.done = <<1, 2>>

(***************************************************************************)
(* C32: what StreamDeltas returns once the receive actor has ended.        *)
(***************************************************************************)

\* The error the receive actor left in con.errorChan, none when it ended on
\* an expected termination of the stream.
ReceiveErr == IF errorChan.buf # <<>> THEN Head(errorChan.buf) ELSE ""

\* The stream loop returns in this step, after the receive actor has ended.
ReturnsAfterReceive ==
    /\ status = "active"
    /\ status' = "closed"
    /\ receive.pc = "done"

\* The error of the receive actor is the one of its cause.
ReceiveErrOfCause ==
    IF log.nodeless THEN ReceiveErr = MissingNode
    ELSE IF log.initRun /\ ~log.initOk THEN ReceiveErr = "init error"
    ELSE ReceiveErr \in {"", "recv error"}

\* C32 (as stated): once the receive actor has ended, the stream loop
\* returns the error the receive actor ended on, none for an expected
\* termination, and it returns after the requests queued before have been
\* processed.
C32_ReturnsReceiveError ==
    [][ReturnsAfterReceive =>
          /\ retErr' = ReceiveErr
          /\ deltaReqChan.buf = <<>>]_vars

\* C32 (amended): once the receive actor has ended, the stream loop returns
\* through the closed request queue only after every queued request has
\* been processed, and then with the error the receive actor ended on
\* (missing node, failed initialization, or the error of Recv), none for an
\* expected termination; before that it may return the error of a request
\* or push handler, or nil on the stop signal.
C32_ReturnsReceiveErrorUnlessEarlier ==
    [][ReturnsAfterReceive =>
          \/ /\ last'.kind = "closed"
             /\ retErr' = ReceiveErr
             /\ ReceiveErrOfCause
             /\ deltaReqChan.buf = <<>>
          \/ /\ last'.kind = "stopped"
             /\ retErr' = ""
          \/ /\ last'.kind \in {"request", "push"}
             /\ retErr' # ""
             /\ PushFailed(last')]_vars

\* Recv failed, the request that had been received was processed, and the
\* stream loop returned the error of Recv.
C32_Witness ==
    /\ status = "closed"
    /\ last.kind = "closed"
    /\ retErr = "recv error"
    /\ log.processed # <<>>

(***************************************************************************)
(* C33: the channels of a connection.                                      *)
(***************************************************************************)

\* The step is one of the receive actor.
ReceiveActorStep == last'.kind \in {"receive", "recverr", "init", "cancelled", "send"}

\* C33: under every interleaving, con.deltaReqChan, con.errorChan and
\* con.initialized are each closed at most once, and only in a step of the
\* receive actor; nothing is sent on a channel that is closed; at most one
\* error is written to con.errorChan, and the write finds the channel open
\* and empty, so it does not block.
C33_ChannelsUsedSafely ==
    /\ [](/\ log.closes.deltaReqChan <= 1
          /\ log.closes.errorChan <= 1
          /\ log.closes.initialized <= 1
          /\ log.errWrites <= 1
          /\ ~log.errBlocked
          /\ deltaReqChan.closed <=> log.closes.deltaReqChan = 1
          /\ errorChan.closed <=> log.closes.errorChan = 1
          /\ initialized <=> log.closes.initialized = 1)
    /\ [][/\ (log'.closes # log.closes \/ log'.errWrites # log.errWrites)
               => ReceiveActorStep
          /\ Len(deltaReqChan'.buf) > Len(deltaReqChan.buf)
               => ~deltaReqChan.closed /\ ReceiveActorStep
          /\ Len(errorChan'.buf) > Len(errorChan.buf)
               => /\ ~errorChan.closed
                  /\ errorChan.buf = <<>>
                  /\ ReceiveActorStep]_vars

\* initConnection closed con.initialized, Recv then failed, and the error
\* was written to con.errorChan before the deferred function closed the
\* channels.
C33_Witness ==
    /\ receive.pc = "done"
    /\ log.initOk
    /\ log.errWrites = 1
    /\ log.closes = [deltaReqChan |-> 1, errorChan |-> 1, initialized |-> 1]

(***************************************************************************)
(* C34: one handler at a time.                                             *)
(***************************************************************************)

\* NonceSent and the name set of a previous info, empty when there is none.
SentAndNames(info) ==
    IF info = <<>> THEN <<EmptyString, {}>>
    ELSE <<info[1].NonceSent, Range(info[1].ResourceNames)>>

\* C34: the handlers of a connection run one at a time on the main actor: a
\* push event is handled, and a request is taken, only when no request is in
\* hand; so while a request without error detail is between the read of
\* the previous info of its type and the update, NonceSent and the name set
\* of the type are still the ones that were read.
C34_OneHandlerAtATime ==
    /\ [](log.inHand # <<>> /\ ~log.inHand[1].ErrorDetail
            => SentAndNames(log.previousInfo)
                 = SentAndNames(previousInfoOf(WatchedResources,
                                               log.inHand[1].TypeUrl)))
    /\ [][(last'.kind \in {"push", "skip", "read"} /\ last' # last)
            => log.inHand = <<>>]_vars

\* A request with the last nonce sent is between the read and the update,
\* with a frame of its type sent before and a push event deferred.
C34_Witness ==
    /\ log.inHand # <<>>
    /\ log.previousInfo # <<>>
    /\ log.inHand[1].ResponseNonce = log.previousInfo[1].NonceSent
    /\ log.inHand[1].ResponseNonce # EmptyString
    /\ log.inHand[1].TypeUrl \in DOMAIN blockedPushes

(***************************************************************************)
(* C35: the blocked push after a response.                                 *)
(***************************************************************************)

\* C35: when a frame has just been sent for a type, by the full push that a
\* request owed a response sets off or by the push that a push event forces
\* on a stuck type, no blocked push is left in the slot of the type.
C35_NoBlockedPushAfterResponse ==
    [][\A t \in Types :
          (/\ SentFrame(last', t)
           /\ \/ RequestStep /\ last'.respond
              \/ PushStep /\ Stuck(t))
          => t \notin DOMAIN blockedPushes']_vars

(***************************************************************************)
(* C36: requests and the synced state of a type.                           *)
(***************************************************************************)

\* C36: the processing of a request leaves a type whose last nonce sent is
\* acknowledged in that state, unless it sends a new frame for the type in
\* the same step.
C36_RequestKeepsSynced ==
    [][RequestStep =>
          \A t \in DOMAIN WatchedResources :
              (/\ IsSynced(WatchedResources, t)
               /\ t \in DOMAIN WatchedResources'
               /\ ~IsSynced(WatchedResources', t))
              => SentFrame(last', t)]_vars

(***************************************************************************)
(* C37: the keys of the blocked pushes.                                    *)
(***************************************************************************)

\* C37: every type with a blocked push has a watched resource; and a type
\* gains a blocked push only in the handling of a push event, with flow
\* control enabled, when the type is watched, its last nonce sent is not
\* acknowledged and the stuck-timeout has not elapsed.
C37_BlockedOnlyForUnsyncedWatched ==
    /\ [](DOMAIN blockedPushes \subseteq DOMAIN WatchedResources)
    /\ [][\A t \in Types :
            (t \in DOMAIN blockedPushes' /\ t \notin DOMAIN blockedPushes)
            => /\ EnableFlowControl
               /\ PushStep
               /\ Deferred(last', t)
               /\ t \in DOMAIN WatchedResources
               /\ ~IsSynced(WatchedResources, t)
               /\ ~TimedOut(WatchedResources, t, now)]_vars

\* A push event found both types watched and unacknowledged some time
\* after their frames were sent, and left a blocked push for each.
C37_Witness ==
    /\ EnableFlowControl
    /\ last.kind = "push"
    /\ DOMAIN blockedPushes = Types
    /\ \A t \in Types : Deferred(last, t) /\ now > WatchedResources[t].LastSent

(***************************************************************************)
(* C38: what a push event leaves alone.                                    *)
(***************************************************************************)

\* The step is the handling of a push event, needed by the proxy or not.
EventStep == last'.kind \in {"push", "skip"}

\* C38: the handling of a push event creates and removes no watched
\* resource, changes NonceAcked and NonceNacked of no type, and leaves the
\* stored names of a type that is not a wildcard type as they were; a push
\* event that the proxy does not need changes neither the table nor the
\* blocked pushes, mints no nonce and sends nothing.
C38_PushEventFrame ==
    [][EventStep =>
          /\ DOMAIN WatchedResources' = DOMAIN WatchedResources
          /\ \A t \in DOMAIN WatchedResources :
                /\ WatchedResources'[t].NonceAcked = WatchedResources[t].NonceAcked
                /\ WatchedResources'[t].NonceNacked = WatchedResources[t].NonceNacked
                /\ ~isWildcardTypeURL(t)
                     => WatchedResources'[t].ResourceNames
                          = WatchedResources[t].ResourceNames
          /\ last'.kind = "skip"
               => /\ WatchedResources' = WatchedResources
                  /\ blockedPushes' = blockedPushes
                  /\ nonceCtr' = nonceCtr
                  /\ last'.results = EmptyMap
                  /\ retErr' = ""]_vars

\* A push event sent a frame for a type that is not a wildcard type, with
\* resources other than the stored names, after an ACK of the type was
\* recorded.
C38_Witness ==
    \E t \in DOMAIN WatchedResources :
        /\ last.kind = "push"
        /\ ~isWildcardTypeURL(t)
        /\ SentFrame(last, t)
        /\ Range(last.results[t].frame.Resources) # StoredNames(WatchedResources, t)
        /\ WatchedResources[t].NonceAcked # EmptyString

(***************************************************************************)
(* C39: a NACK of a type that is not watched.                              *)
(***************************************************************************)

\* C39: a request with error detail for a type without watched resource
\* changes neither the table nor the blocked pushes, runs no push and
\* returns no error; and a request without error detail for a type without
\* watched resource, whatever came before it, is handled as the first of
\* its type: it is responded to, and a full push with the current global
\* push context is run for it.
C39_NackOfUnwatchedType ==
    [][RequestStep =>
          LET r == last'.req
              t == r.TypeUrl
          IN  t \notin DOMAIN WatchedResources =>
                IF r.ErrorDetail
                THEN /\ WatchedResources' = WatchedResources
                     /\ blockedPushes' = blockedPushes
                     /\ last'.results = EmptyMap
                     /\ ~last'.respond
                     /\ status' = status
                     /\ retErr' = retErr
                ELSE /\ last'.rule = "init"
                     /\ last'.respond
                     /\ t \in DOMAIN WatchedResources'
                     /\ Attempted(last', t)
                     /\ last'.results[t].req.Full
                     /\ last'.results[t].req.Push = globalPush]_vars

\* A request with error detail and a nonce was processed on a connection
\* that watches nothing, and the connection still watches nothing.
C39_Witness ==
    /\ last.kind = "request"
    /\ last.req.ErrorDetail
    /\ last.req.ResponseNonce # EmptyString
    /\ WatchedResources = EmptyMap
    /\ status = "active"

(***************************************************************************)
(* C40: a push event whose push of one type fails.                         *)
(***************************************************************************)

\* The push of type t failed in the handler recorded by l.
FailedPush(l, t) == Handled(l, t) /\ l.results[t].err

\* C40: when the push of a watched type fails in the handling of a push
\* event, no watched type after it in the push order is pushed or deferred:
\* its watched resource and its slot in the blocked pushes stay as they
\* were; the done callback of the event is invoked, and StreamDeltas
\* returns the error of the failed push.
C40_FailedPushEndsEvent ==
    [][\A t \in Types :
          (TakesEvent /\ FailedPush(last', t))
          => /\ \A u \in DOMAIN WatchedResources :
                   PushRank(u) > PushRank(t)
                   => /\ ~Handled(last', u)
                      /\ WatchedResources'[u] = WatchedResources[u]
                      /\ (u \in DOMAIN blockedPushes') = (u \in DOMAIN blockedPushes)
                      /\ u \in DOMAIN blockedPushes
                           => blockedPushes'[u] = blockedPushes[u]
             /\ log'.done = Append(log.done, log'.delivered[Len(log'.delivered)])
             /\ log'.pushCase = <<"pushConnectionDelta", "done", "return">>
             /\ status' = "closed"
             /\ retErr' = last'.results[t].result]_vars

\* With flow control enabled, the push of the first type failed in a push
\* event while the second type, watched and with its last nonce
\* unacknowledged, was neither pushed nor deferred; the callback was
\* invoked and the stream has returned.
C40_Witness ==
    /\ EnableFlowControl
    /\ last.kind = "push"
    /\ FailedPush(last, "CDS")
    /\ "EDS" \in DOMAIN WatchedResources
    /\ ~IsSynced(WatchedResources, "EDS")
    /\ ~Handled(last, "EDS")
    /\ "EDS" \notin DOMAIN blockedPushes
    /\ log.done = log.delivered
    /\ log.done # <<>>
    /\ status = "closed"

====
